---- MODULE Spec2Model ----
(***************************************************************************)
(* Two-party threshold ECDSA (CSCV2025/src): the Party orchestrator, the   *)
(* four phase engines (Keygen, Aux, Presigning, Signing), the MtA          *)
(* sub-protocol, the scripted honest run of simulate.py and the Party1     *)
(* command server of main.py.                                              *)
(*                                                                         *)
(* Scaling.  The curve is a real short-Weierstrass curve of prime order    *)
(* over a one-digit field, Paillier moduli are products of two 7-bit       *)
(* primes, and SHA digests are replaced by small mixing functions; every   *)
(* size relation the code relies on (q^5 < N, bit-length threshold =       *)
(* modulus bits - 1) is kept.                                              *)
(***************************************************************************)
EXTENDS Integers, Sequences, FiniteSets, TLC

\* ------------------------------------------------------------------------
\* Bounds of the model (not program constants)
\* ------------------------------------------------------------------------
\* rid is drawn from 0..MaxRid (os.urandom(32) in the code)
MaxRid == 1
\* Schnorr nonces and gamma_i are drawn from 1..Min(MaxNonce, q-1)
MaxNonce == 2
\* largest secret scalar drawn for x_i and k_i
MaxScalar == 3
\* largest Schnorr commitment nonce drawn
MaxAlpha == 1
\* largest Paillier encryption randomness drawn
MaxEncRand == 1
\* message digests h = SHA256(message) range over 0..MaxDigest
MaxMessage == 4

\* ------------------------------------------------------------------------
\* Integer helpers (gmpy2 / Python int semantics)
\* ------------------------------------------------------------------------
Min(a, b) == IF a < b THEN a ELSE b

RECURSIVE BitXor(_, _)
\* Python's a ^ b on non-negative integers
BitXor(a, b) ==
    IF a = 0 THEN b
    ELSE IF b = 0 THEN a
    ELSE (((a % 2) + (b % 2)) % 2) + 2 * BitXor(a \div 2, b \div 2)

RECURSIVE bit_length(_)
\* int.bit_length()
bit_length(n) == IF n = 0 THEN 0 ELSE 1 + bit_length(n \div 2)

RECURSIVE Gcd(_, _)
\* gmpy2.gcd
Gcd(a, b) == IF b = 0 THEN a ELSE Gcd(b, a % b)

\* one step of square and multiply on h = b^(e div 2) mod m
powmod_step(h, b, e, m) ==
    IF h = 0 THEN 0
    ELSE IF e % 2 = 1 THEN (((h * h) % m) * (b % m)) % m ELSE (h * h) % m

\* one step of four squarings on h = b^(e div 16) mod m and a product with l = b^(e mod 16)
powmod_step16(h, l, m) ==
    IF h = 0 THEN 0
    ELSE (((((((((h * h) % m) * ((h * h) % m)) % m) * ((((h * h) % m) * ((h * h) % m)) % m)) % m)
            * ((((((h * h) % m) * ((h * h) % m)) % m) * ((((h * h) % m) * ((h * h) % m)) % m)) % m))
           % m) * l) % m

RECURSIVE powmod(_, _, _)
\* gmpy2.powmod(b, e, m) for e >= 0 (square and multiply, four bits of e at a time
\* above 15; m < 2^15)
powmod(b, e, m) ==
    IF e = 0 THEN 1 % m
    ELSE IF e < 16 THEN powmod_step(powmod(b, e \div 2, m), b, e, m)
    ELSE powmod_step16(powmod(b, e \div 16, m), powmod(b, e % 16, m), m)

\* gmpy2.invert(a, m): the inverse of a mod m; the caller guards gcd(a, m) = 1
invert(a, m) == CHOOSE i \in 0 .. m - 1 : (i * a) % m = 1 % m

\* ------------------------------------------------------------------------
\* Elliptic curve (crypto/common/ec.py is not part of the sources: modelled
\* from the specification, section 4.1, on the curve y^2 = x^3 + x + 1 over
\* F_7, which has prime order 5)
\* ------------------------------------------------------------------------
ec_p == 7
ec_a == 1
ec_b == 1
ec_n == 5

Point(px, py) == [inf |-> FALSE, x |-> px, y |-> py]
Infinity == [inf |-> TRUE, x |-> 0, y |-> 0]
ec_G == Point(0, 1)

\* ec.point_add(P, Q): chord-and-tangent addition
point_add(P, Q) ==
    IF P.inf THEN Q
    ELSE IF Q.inf THEN P
    ELSE IF P.x = Q.x /\ (P.y + Q.y) % ec_p = 0 THEN Infinity
    ELSE LET l == IF P = Q
                  THEN ((3 * P.x * P.x + ec_a) * invert((2 * P.y) % ec_p, ec_p)) % ec_p
                  ELSE (((Q.y - P.y) % ec_p) * invert((Q.x - P.x) % ec_p, ec_p)) % ec_p
             x3 == (l * l - P.x - Q.x) % ec_p
         IN  Point(x3, (l * (P.x - x3) - P.y) % ec_p)

RECURSIVE scalar_mult(_, _)
\* ec.scalar_mult(k, P) for k >= 0
scalar_mult(k, P) == IF k = 0 THEN Infinity ELSE point_add(P, scalar_mult(k - 1, P))

\* ec.scalar_mult(k): multiplication of the base point
scalar_base_mult(k) == scalar_mult(k, ec_G)

\* ec.random_scalar(): uniform in [1, q)
random_scalar == 1 .. ec_n - 1

\* ec.verify(X, h, (r, s)): textbook ECDSA verification
ec_verify(X, h, r, s) ==
    IF r % ec_n = 0 \/ s % ec_n = 0 \/ r < 0 \/ r >= ec_n \/ s < 0 \/ s >= ec_n THEN FALSE
    ELSE LET w  == invert(s, ec_n)
             u1 == (h * w) % ec_n
             u2 == (r * w) % ec_n
             Pt == point_add(scalar_base_mult(u1), scalar_mult(u2, X))
         IN  (~Pt.inf) /\ (Pt.x % ec_n = r)

\* ------------------------------------------------------------------------
\* Hashing (crypto/zkp/hash.py, crypto/common/numbers.py).  SHA-512/256 and
\* SHA-256 are replaced by small mixing functions with the same interface;
\* the loop of rejection_sample is kept.
\* ------------------------------------------------------------------------
HashMod == 65536
BlockMod == 256

\* the left fold acc <- (acc * 131 + x + 1) mod HashMod over xs, taken half by half
HashFold[acc \in Nat, xs \in Seq(Int)] ==
    IF xs = << >> THEN acc
    ELSE IF Len(xs) = 1 THEN (acc * 131 + (xs[1] % HashMod) + 1) % HashMod
    ELSE HashFold[HashFold[acc, SubSeq(xs, 1, Len(xs) \div 2)],
                  SubSeq(xs, Len(xs) \div 2 + 1, Len(xs))]

\* sha512_256i(*in_data): digest of a list of integers
sha512_256i(in_data) == HashFold[7, in_data]

\* hashlib.sha256(str(n).encode()) as an integer (one block)
sha256_block(n) == (37 * n + 11) % BlockMod

RECURSIVE rejection_loop(_, _, _, _)
rejection_loop(modulus, h, r, i) ==
    IF r < modulus
    THEN rejection_loop(modulus, h, r * BlockMod + sha256_block(h + i), i + 1)
    ELSE r % modulus

\* rejection_sample(modulus, h): deterministic in (modulus, h)
rejection_sample(modulus, h) == rejection_loop(modulus, h, 0, 0)

\* ------------------------------------------------------------------------
\* Values shared by all objects
\* ------------------------------------------------------------------------
\* Python's None
NoneVal == [none |-> TRUE]
\* Python's None in an attribute that otherwise holds an integer
NoneInt == -1
IsNone(v) == v = NoneVal

\* outcome of a call: a returned value, or a raised exception
Returned(v) == [err |-> "ok", val |-> v]
Raised(e) == [err |-> e, val |-> NoneVal]

Parties == {0, 1}
Other(p) == 1 - p

\* ------------------------------------------------------------------------
\* Schnorr proof (crypto/zkp/sch.py)
\* ------------------------------------------------------------------------
\* the Fiat-Shamir challenge of new_proof_with_alpha and verify
ProofSch_challenge(ssid, X, A) ==
    rejection_sample(ec_n,
        sha512_256i(<<ssid, ec_b, ec_n, ec_p, X.x, X.y, ec_G.x, ec_G.y, A.x, A.y>>))

\* ProofSch.new_proof_with_alpha with the challenge left out of the response
ProofSch_new_proof_with_alpha_mut(ssid, X, A, alpha, x) ==
    [A |-> A, Z |-> (alpha + x) % ec_n]

\* ProofSch.new_proof_with_alpha(ssid, ec, X, A, alpha, x)
ProofSch_new_proof_with_alpha(ssid, X, A, alpha, x) ==
    [A |-> A, Z |-> (alpha + ProofSch_challenge(ssid, X, A) * x) % ec_n]

\* ProofSch.new_proof(ssid, ec, X, x) with the nonce new_alpha draws
ProofSch_new_proof(ssid, X, x, alpha) ==
    ProofSch_new_proof_with_alpha(ssid, X, scalar_base_mult(alpha), alpha, x)

\* ProofSch.to_bytes_parts: the three big-endian integers A.x, A.y, Z
ProofSch_to_bytes_parts(pf) == <<pf.A.x, pf.A.y, pf.Z>>

\* ProofSch.from_bytes(ec, parts)
ProofSch_from_bytes(parts) ==
    [A |-> Point(parts[1] % ec_p, parts[2] % ec_p), Z |-> parts[3] % ec_n]

\* ProofSch.verify(ssid, ec, X): z*G == A + e*X
ProofSch_verify(pf, ssid, X) ==
    scalar_base_mult(pf.Z) = point_add(pf.A, scalar_mult(ProofSch_challenge(ssid, X, pf.A), X))

\* ------------------------------------------------------------------------
\* Keygen (ecdsa/keygen.py)
\* ------------------------------------------------------------------------
\* Keygen.__init__ with the values it draws: xi, rid and the Schnorr nonce
Keygen_init(id, xi, rid, alphai) ==
    LET Xi == scalar_base_mult(xi)
        Ai == scalar_base_mult(alphai)
    IN  [id |-> id, xi |-> xi, Xi |-> Xi, rid |-> rid, alphai |-> alphai, Ai |-> Ai,
         Vi |-> sha512_256i(<<id, rid, Xi.x, Xi.y, Ai.x, Ai.y>>),
         Xj |-> NoneVal, Aj |-> NoneVal, srid |-> NoneInt]

\* Keygen.round1
Keygen_round1(kg) == [id |-> kg.id, V |-> kg.Vi]

\* Keygen.round2
Keygen_round2(kg) == [rid |-> kg.rid, X |-> kg.Xi, A |-> kg.Ai]

\* srid = self.rid ^ msg_j_r2.rid
Keygen_srid(rid_i, rid_j) == BitXor(rid_i, rid_j)

\* Keygen.round3 without the test of the round-1 commitment
Keygen_round3_mut(kg, msg_j_r1, msg_j_r2, alphaA) ==
    LET kg1   == [kg EXCEPT !.Xj = msg_j_r2.X, !.Aj = msg_j_r2.A]
        srid  == Keygen_srid(kg.rid, msg_j_r2.rid)
        schXi == ProofSch_new_proof_with_alpha(srid, kg.Xi, kg.Ai, kg.alphai, kg.xi)
        schAi == ProofSch_new_proof(srid, kg.Ai, kg.alphai, alphaA)
        psii  == sha512_256i(<<kg.id, srid, schXi.A.x, schXi.Z, schAi.A.x, schAi.Z>>)
    IN  [self |-> [kg1 EXCEPT !.srid = srid],
         out  |-> Returned([schX |-> ProofSch_to_bytes_parts(schXi),
                            schA |-> ProofSch_to_bytes_parts(schAi),
                            psi  |-> psii])]

\* Keygen.round3(msg_j_r1, msg_j_r2); alphaA is the nonce of the proof for Ai.
\* Result: the engine after the call and the outcome.
Keygen_round3(kg, msg_j_r1, msg_j_r2, alphaA) ==
    LET kg1 == [kg EXCEPT !.Xj = msg_j_r2.X, !.Aj = msg_j_r2.A]
        expected_Vj == sha512_256i(<<msg_j_r1.id, msg_j_r2.rid, kg1.Xj.x, kg1.Xj.y,
                                     kg1.Aj.x, kg1.Aj.y>>)
    IN  IF msg_j_r1.V # expected_Vj
        THEN [self |-> kg1, out |-> Raised("VerificationError")]
        ELSE LET srid  == Keygen_srid(kg.rid, msg_j_r2.rid)
                 schXi == ProofSch_new_proof_with_alpha(srid, kg.Xi, kg.Ai, kg.alphai, kg.xi)
                 schAi == ProofSch_new_proof(srid, kg.Ai, kg.alphai, alphaA)
                 psii  == sha512_256i(<<kg.id, srid, schXi.A.x, schXi.Z, schAi.A.x, schAi.Z>>)
             IN  [self |-> [kg1 EXCEPT !.srid = srid],
                  out  |-> Returned([schX |-> ProofSch_to_bytes_parts(schXi),
                                     schA |-> ProofSch_to_bytes_parts(schAi),
                                     psi  |-> psii])]

\* a faulty joint key that leaves out the counterparty's share (sensitivity of C8)
Keygen_public_key_mut(Xi, Xj) == Xi

\* X = ec.point_add(Xi, Xj)
Keygen_public_key(Xi, Xj) == point_add(Xi, Xj)

\* Keygen.round_out without the test schX.A = A_j
Keygen_round_out_mut(kg, idj, msg_j_r3) ==
    LET schXj == ProofSch_from_bytes(msg_j_r3.schX)
        schAj == ProofSch_from_bytes(msg_j_r3.schA)
        expected_psij == sha512_256i(<<idj, kg.srid, schXj.A.x, schXj.Z, schAj.A.x, schAj.Z>>)
    IN  IF msg_j_r3.psi # expected_psij THEN Raised("VerificationError")
        ELSE IF ~ProofSch_verify(schXj, kg.srid, kg.Xj) \/ ~ProofSch_verify(schAj, kg.srid, kg.Aj)
             THEN Raised("VerificationError")
        ELSE Returned([ssid |-> kg.srid, xi |-> kg.xi, Xi |-> kg.Xi, Xj |-> kg.Xj,
                       X |-> Keygen_public_key(kg.Xi, kg.Xj)])

\* Keygen.round_out(idj, msg_j_r3)
Keygen_round_out(kg, idj, msg_j_r3) ==
    LET schXj == ProofSch_from_bytes(msg_j_r3.schX)
        schAj == ProofSch_from_bytes(msg_j_r3.schA)
        expected_psij == sha512_256i(<<idj, kg.srid, schXj.A.x, schXj.Z, schAj.A.x, schAj.Z>>)
    IN  IF msg_j_r3.psi # expected_psij THEN Raised("VerificationError")
        ELSE IF schXj.A # kg.Aj THEN Raised("VerificationError")
        ELSE IF ~ProofSch_verify(schXj, kg.srid, kg.Xj) \/ ~ProofSch_verify(schAj, kg.srid, kg.Aj)
             THEN Raised("VerificationError")
        ELSE Returned([ssid |-> kg.srid, xi |-> kg.xi, Xi |-> kg.Xi, Xj |-> kg.Xj,
                       X |-> Keygen_public_key(kg.Xi, kg.Xj)])

\* ------------------------------------------------------------------------
\* Paillier (crypto/common/paillier.py).  Encryption (m, x) |-> (1+N)^m x^N
\* mod N^2 is a group isomorphism from Z_N x Z_N^* onto Z_{N^2}^*, so a
\* ciphertext is held as the pair it encrypts, [n, m, r]: the homomorphic
\* operations act on the pair exactly as the products and powers mod N^2
\* act on the integer.  ciphertext_int gives the integer itself.
\* ------------------------------------------------------------------------
\* generate_key_pair(2048) in Aux.__init__ (scaled)
ModulusBitLen == 14
\* the bit-length threshold of Aux.round3 (2047 = 2048 - 1, scaled)
MinModulusBits == 13
\* number of candidate primes getPrime may return
NumPrimes == 3
PrimeList == <<67, 71, 79, 83, 103, 107, 127>>

IsPrime(n) == n > 1 /\ \A d \in 2 .. n - 1 : d * d > n \/ n % d # 0

\* generate_safe_prime(bits): the primes it can return
generate_safe_prime(bits) ==
    {c \in {PrimeList[i] : i \in 1 .. Min(NumPrimes, Len(PrimeList))} :
        IsPrime(c) /\ bit_length(c) >= bits /\ bit_length(c) <= bits /\ c % 4 = 3}

PublicKey(n) == [n |-> n]
PrivateKey(n, lambda_n, phi_n) == [n |-> n, lambda_n |-> lambda_n, phi_n |-> phi_n]

\* generate_key_pair(modulus_bit_len): the tuples (private, public, p, q) it can return
generate_key_pair(modulus_bit_len) ==
    LET prime_bits == modulus_bit_len \div 2
    IN  {[priv |-> PrivateKey(pp * qq, ((pp - 1) * (qq - 1)) \div Gcd(pp - 1, qq - 1),
                              (pp - 1) * (qq - 1)),
          pub  |-> PublicKey(pp * qq), p |-> pp, q |-> qq] :
            <<pp, qq>> \in {pq \in generate_safe_prime(prime_bits)
                                   \X generate_safe_prime(prime_bits) : pq[1] # pq[2]}}

\* PublicKey.encrypt_with_randomness(m, x) for 0 <= m < n and x in Z_n^*
encrypt_with_randomness(pk, m, x) == [n |-> pk.n, m |-> m, r |-> x]

\* PublicKey.homo_mult(m, c1) = c1^m mod n^2
homo_mult(pk, m, c1) == [n |-> pk.n, m |-> (m * c1.m) % pk.n, r |-> powmod(c1.r, m, pk.n)]

\* PublicKey.homo_add(c1, c2) = c1*c2 mod n^2
homo_add(pk, c1, c2) == [n |-> pk.n, m |-> (c1.m + c2.m) % pk.n, r |-> (c1.r * c2.r) % pk.n]

\* PrivateKey.decrypt(c)
decrypt(priv, c) == c.m

\* x * 2^14 mod m without leaving 32 bits, for x < m < 2^28
shift14(x, m) == (((((((((x * 8) % m) * 8) % m) * 8) % m) * 8) % m) * 4) % m

\* a * b mod m without leaving 32 bits, for a, b < m < 2^28: both factors are
\* split at 14 bits
mulmod(a, b, m) ==
    IF a = 0 \/ b = 0 THEN 0
    ELSE ((((a % 16384) * (b % 16384)) % m)
          + shift14(((((a \div 16384) * (b % 16384)) % m)
                     + (((a % 16384) * (b \div 16384)) % m)
                     + shift14(((a \div 16384) * (b \div 16384)) % m, m)) % m, m)) % m

\* one step of square and multiply on h = b^(e div 2) mod m
powmod_wide_step(h, b, e, m) ==
    IF h = 0 THEN 0
    ELSE IF e % 2 = 1 THEN mulmod(mulmod(h, h, m), b % m, m) ELSE mulmod(h, h, m)

\* h^4 mod m
fourth_power(h, m) == mulmod(mulmod(h, h, m), mulmod(h, h, m), m)

\* one step of four squarings on h = b^(e div 16) mod m and a product with l = b^(e mod 16)
powmod_wide_step16(h, l, m) ==
    IF h = 0 THEN 0
    ELSE mulmod(fourth_power(fourth_power(h, m), m), l, m)

RECURSIVE powmod_wide(_, _, _)
\* gmpy2.powmod(b, e, m) for e >= 0 and m < 2^28 (four bits of e at a time above 15)
powmod_wide(b, e, m) ==
    IF e = 0 THEN 1 % m
    ELSE IF e < 16 THEN powmod_wide_step(powmod_wide(b, e \div 2, m), b, e, m)
    ELSE powmod_wide_step16(powmod_wide(b, e \div 16, m), powmod_wide(b, e % 16, m), m)

\* the integer (1+n)^m * r^n mod n^2 a ciphertext stands for
ciphertext_int(c) ==
    LET nsq == c.n * c.n
    IN  mulmod((1 + c.m * c.n) % nsq, powmod_wide(c.r, c.n, nsq), nsq)

\* ------------------------------------------------------------------------
\* Zero-knowledge proofs Prm, Mod, Fac, Enc, Aff-g, Log* (crypto/zkp).  A
\* proof is held as the statement it was made for and whether the prover's
\* witness satisfies the relation; verify accepts it for exactly that
\* statement.  Whether the prover's commitment randomness passes verify's
\* range and group checks (z1 = e*k + alpha < q^3, 1 < A_i < N, ...) is the
\* input acc of verify, chosen by the caller.
\* ------------------------------------------------------------------------
Proof(kind, stmt, wit) == [kind |-> kind, stmt |-> stmt, wit |-> wit]
ProofAccepts(pf, kind, stmt, acc) == acc /\ pf.kind = kind /\ pf.stmt = stmt /\ pf.wit

\* the integers a serialized proof contributes to a hash
proof_parts_ints(pf) == <<sha512_256i(pf.stmt)>>

\* ProofPrm.new_proof(ssid, s, t, N, Phi, lam)
ProofPrm_new_proof(ssid, s, t, N, Phi, lam) ==
    IF s = 0 \/ t = 0 \/ N = 0 \/ Phi = 0 \/ lam = 0 THEN Raised("ValueError")
    ELSE Returned(Proof("Prm", <<ssid, s, t, N>>, powmod(t, lam, N) = s))

\* ProofPrm.verify(ssid, s, t, N)
ProofPrm_verify(pf, ssid, s, t, N, acc) ==
    IF s = 0 \/ t = 0 \/ N <= 0 THEN FALSE
    ELSE IF ~(1 < s % N) \/ ~(1 < t % N) \/ s % N = t % N THEN FALSE
    ELSE ProofAccepts(pf, "Prm", <<ssid, s, t, N>>, acc)

\* ProofMod.new_proof(ssid, N, P, Q)
ProofMod_new_proof(ssid, N, P, Q) ==
    IF N = 0 \/ P = 0 \/ Q = 0 THEN Raised("ValueError")
    ELSE IF Gcd(N, (P - 1) * (Q - 1)) # 1 THEN Raised("ValueError")
    ELSE Returned(Proof("Mod", <<ssid, N>>, P * Q = N))

\* ProofMod.verify(ssid, N)
ProofMod_verify(pf, ssid, N, acc) == ProofAccepts(pf, "Mod", <<ssid, N>>, acc)

\* ProofFac.new_proof(ssid, ec, N0, NCap, s, t, N0p, N0q)
ProofFac_new_proof(ssid, N0, NCap, s, t, N0p, N0q) ==
    IF N0 = 0 \/ NCap = 0 \/ s = 0 \/ t = 0 \/ N0p = 0 \/ N0q = 0 THEN Raised("ValueError")
    ELSE Returned(Proof("Fac", <<ssid, N0, NCap, s, t>>, N0p * N0q = N0))

\* ProofFac.verify(ssid, ec, N0, NCap, s, t)
ProofFac_verify(pf, ssid, N0, NCap, s, t, acc) ==
    ProofAccepts(pf, "Fac", <<ssid, N0, NCap, s, t>>, acc)

\* ------------------------------------------------------------------------
\* Auxiliary parameter generation (ecdsa/aux.py)
\* ------------------------------------------------------------------------
\* range of the draws lamd and rhoi of Aux.__init__
MaxAuxRand == 1
\* range of the draw r of Aux.__init__ (t = r^2)
MaxRingRand == 2

\* Aux.__init__(party_id, ec, ssid) with its draws: the key pair kp, lamd, r, rhoi
Aux_init(id, ssid, kp, lamd, r, rhoi) ==
    LET ti  == powmod(r, 2, kp.pub.n)
        si  == powmod(ti, lamd, kp.pub.n)
        prm == ProofPrm_new_proof(ssid, si, ti, kp.priv.n, kp.priv.phi_n, lamd)
    IN  IF prm.err # "ok" THEN prm
        ELSE Returned([id |-> id, ssid |-> ssid,
                       paillier_priv_i |-> kp.priv, paillier_pub_i |-> kp.pub,
                       p |-> kp.p, q |-> kp.q, lamd |-> lamd, rhoi |-> rhoi,
                       ti |-> ti, si |-> si, prm_parts_i |-> prm.val,
                       paillier_pub_j |-> NoneVal, sj |-> NoneInt, tj |-> NoneInt,
                       rho |-> NoneInt])

\* the commitment hashed in Aux.round1 and recomputed in Aux.round3
Aux_commitment(ssid, id, n, s, t, prm, rho) ==
    sha512_256i(<<ssid, id, n, s, t>> \o proof_parts_ints(prm) \o <<rho>>)

\* Aux.round1()
Aux_round1(ax) ==
    [id |-> ax.id,
     V  |-> Aux_commitment(ax.ssid, ax.id, ax.paillier_pub_i.n, ax.si, ax.ti,
                           ax.prm_parts_i, ax.rhoi)]

\* Aux.round2()
Aux_round2(ax) ==
    [n |-> ax.paillier_pub_i.n, s |-> ax.si, t |-> ax.ti, prm |-> ax.prm_parts_i,
     rho |-> ax.rhoi]

\* Aux.round3 without the test of the bit length of the counterparty's N
Aux_round3_mut(ax, msg_j_r1, msg_j_r2, acc) ==
    LET expected_Vj == Aux_commitment(ax.ssid, msg_j_r1.id, msg_j_r2.n, msg_j_r2.s,
                                      msg_j_r2.t, msg_j_r2.prm, msg_j_r2.rho)
        ax2 == [ax EXCEPT !.sj = msg_j_r2.s, !.tj = msg_j_r2.t,
                          !.paillier_pub_j = PublicKey(msg_j_r2.n),
                          !.rho = BitXor(ax.rhoi, msg_j_r2.rho)]
        mod == ProofMod_new_proof(BitXor(ax2.ssid, ax2.rho), ax2.paillier_pub_i.n,
                                  ax2.p, ax2.q)
        fac == ProofFac_new_proof(BitXor(ax2.ssid, ax2.rho), ax2.paillier_pub_i.n,
                                  ax2.paillier_pub_j.n, ax2.sj, ax2.tj, ax2.p, ax2.q)
    IN  IF msg_j_r1.V # expected_Vj
        THEN [self |-> ax, out |-> Raised("VerificationError")]
        ELSE IF ~ProofPrm_verify(msg_j_r2.prm, ax.ssid, msg_j_r2.s, msg_j_r2.t,
                                 msg_j_r2.n, acc)
        THEN [self |-> ax2, out |-> Raised("VerificationError")]
        ELSE IF mod.err # "ok" THEN [self |-> ax2, out |-> mod]
        ELSE IF fac.err # "ok" THEN [self |-> ax2, out |-> fac]
        ELSE [self |-> ax2, out |-> Returned([mod |-> mod.val, fac |-> fac.val])]

\* Aux.round3(msg_j_r1, msg_j_r2); acc: whether the counterparty's Prm proof passes
Aux_round3(ax, msg_j_r1, msg_j_r2, acc) ==
    LET expected_Vj == Aux_commitment(ax.ssid, msg_j_r1.id, msg_j_r2.n, msg_j_r2.s,
                                      msg_j_r2.t, msg_j_r2.prm, msg_j_r2.rho)
        ax2 == [ax EXCEPT !.sj = msg_j_r2.s, !.tj = msg_j_r2.t,
                          !.paillier_pub_j = PublicKey(msg_j_r2.n),
                          !.rho = BitXor(ax.rhoi, msg_j_r2.rho)]
        mod == ProofMod_new_proof(BitXor(ax2.ssid, ax2.rho), ax2.paillier_pub_i.n,
                                  ax2.p, ax2.q)
        fac == ProofFac_new_proof(BitXor(ax2.ssid, ax2.rho), ax2.paillier_pub_i.n,
                                  ax2.paillier_pub_j.n, ax2.sj, ax2.tj, ax2.p, ax2.q)
    IN  IF bit_length(msg_j_r2.n) < MinModulusBits
        THEN [self |-> ax, out |-> Raised("VerificationError")]
        ELSE IF msg_j_r1.V # expected_Vj
        THEN [self |-> ax, out |-> Raised("VerificationError")]
        ELSE IF ~ProofPrm_verify(msg_j_r2.prm, ax.ssid, msg_j_r2.s, msg_j_r2.t,
                                 msg_j_r2.n, acc)
        THEN [self |-> ax2, out |-> Raised("VerificationError")]
        ELSE IF mod.err # "ok" THEN [self |-> ax2, out |-> mod]
        ELSE IF fac.err # "ok" THEN [self |-> ax2, out |-> fac]
        ELSE [self |-> ax2, out |-> Returned([mod |-> mod.val, fac |-> fac.val])]

\* a faulty output that records the party's own key and parameters as the
\* counterparty's (sensitivity of C10)
AuxOutputData_mut(ax) ==
    [paillier_priv_i |-> ax.paillier_priv_i, paillier_pub_i |-> ax.paillier_pub_i,
     si |-> ax.si, ti |-> ax.ti,
     paillier_pub_j |-> ax.paillier_pub_i, sj |-> ax.si, tj |-> ax.ti]

\* the AuxOutputData returned by Aux.round_out
AuxOutputData(ax) ==
    [paillier_priv_i |-> ax.paillier_priv_i, paillier_pub_i |-> ax.paillier_pub_i,
     si |-> ax.si, ti |-> ax.ti,
     paillier_pub_j |-> ax.paillier_pub_j, sj |-> ax.sj, tj |-> ax.tj]

\* Aux.round_out(msg_j_r3); accMod, accFac: whether the Mod and Fac proofs pass
Aux_round_out(ax, msg_j_r3, accMod, accFac) ==
    IF ~ProofMod_verify(msg_j_r3.mod, BitXor(ax.ssid, ax.rho), ax.paillier_pub_j.n, accMod)
    THEN Raised("VerificationError")
    ELSE IF ~ProofFac_verify(msg_j_r3.fac, BitXor(ax.ssid, ax.rho), ax.paillier_pub_j.n,
                             ax.paillier_pub_i.n, ax.si, ax.ti, accFac)
    THEN Raised("VerificationError")
    ELSE Returned(AuxOutputData(ax))

\* ProofEnc.new_proof(ssid, ec, pk, K, NCap, s, t, k, rho)
ProofEnc_new_proof(ssid, pk, K, NCap, s, t, k, rho) ==
    Returned(Proof("Enc", <<ssid, pk.n, K, NCap, s, t>>,
                   K = encrypt_with_randomness(pk, k, rho)))

\* ProofEnc.verify(ssid, ec, pk, NCap, s, t, K)
ProofEnc_verify(pf, ssid, pk, NCap, s, t, K, acc) ==
    IF NCap = 0 \/ s = 0 \/ t = 0 THEN FALSE
    ELSE ProofAccepts(pf, "Enc", <<ssid, pk.n, K, NCap, s, t>>, acc)

\* ProofAffg.new_proof(ssid, ec, pk0, pk1, NCap, s, t, C, D, Y, X, x, y, rho, rhoy)
ProofAffg_new_proof(ssid, pk0, pk1, NCap, s, t, C, D, Y, X, x, y, rho, rhoy) ==
    IF NCap = 0 \/ s = 0 \/ t = 0 \/ x = 0 \/ y = 0 \/ rho = 0 \/ rhoy = 0
    THEN Raised("ValueError")
    ELSE Returned(Proof("Affg", <<ssid, pk0.n, pk1.n, NCap, s, t, C, D, Y, X>>,
                        /\ D = homo_add(pk0, homo_mult(pk0, x, C),
                                        encrypt_with_randomness(pk0, y % pk0.n, rho))
                        /\ Y = encrypt_with_randomness(pk1, y % pk1.n, rhoy)
                        /\ X = scalar_base_mult(x)))

\* ProofAffg.verify(ssid, ec, pk0, pk1, NCap, s, t, C, D, Y, X)
ProofAffg_verify(pf, ssid, pk0, pk1, NCap, s, t, C, D, Y, X, acc) ==
    ProofAccepts(pf, "Affg", <<ssid, pk0.n, pk1.n, NCap, s, t, C, D, Y, X>>, acc)

\* ProofLogstar.new_proof(ssid, ec, pk, C, X, g, rho, x, NCap, s, t)
ProofLogstar_new_proof(ssid, pk, C, X, g, rho, x, NCap, s, t) ==
    IF scalar_mult(ciphertext_int(C) % ec_n, g) = X THEN Raised("ValueError")
    ELSE Returned(Proof("Logstar", <<ssid, pk.n, C, X, g, NCap, s, t>>,
                        C = encrypt_with_randomness(pk, x, rho) /\ X = scalar_mult(x, g)))

\* ProofLogstar.verify(ssid, ec, pk, C, X, g, NCap, s, t)
ProofLogstar_verify(pf, ssid, pk, C, X, g, NCap, s, t, acc) ==
    IF NCap = 0 \/ s = 0 \/ t = 0 THEN FALSE
    ELSE ProofAccepts(pf, "Logstar", <<ssid, pk.n, C, X, g, NCap, s, t>>, acc)

\* ------------------------------------------------------------------------
\* Multiplicative-to-additive conversion (crypto/zkp/mta.py)
\* ------------------------------------------------------------------------
q5 == ec_n * ec_n * ec_n * ec_n * ec_n

\* the blinding factor beta_neg of new_mta
mta_beta_neg(ssid) == rejection_sample(q5, ssid)

\* a new_mta whose blinding depends on the secret input as well
new_mta_mut(ssid, Kj, gamma_i, BigGamma_i, pkj, pki, NCap, s, t, sij, rij) ==
    LET beta_neg == rejection_sample(q5, ssid + gamma_i)
        beta     == q5 - beta_neg
        gammaK   == homo_mult(pkj, gamma_i % pkj.n, Kj)
        Dji      == homo_add(pkj, gammaK, encrypt_with_randomness(pkj, beta_neg % pkj.n, sij))
        Fji      == encrypt_with_randomness(pki, beta_neg % pki.n, rij)
        proof    == ProofAffg_new_proof(ssid, pkj, pki, NCap, s, t, Kj, Dji, Fji,
                                        BigGamma_i, gamma_i % ec_n, beta_neg, sij, rij)
    IN  IF proof.err # "ok" THEN proof
        ELSE Returned([Dji |-> Dji, Fji |-> Fji, sij |-> sij, rij |-> rij,
                       beta |-> beta, Proofji |-> proof.val])

\* new_mta(ssid, ec, Kj, gamma_i, BigGamma_i, pkj, pki, NCap, s, t) with the
\* encryption randomness sij, rij it draws
new_mta(ssid, Kj, gamma_i, BigGamma_i, pkj, pki, NCap, s, t, sij, rij) ==
    LET beta_neg == mta_beta_neg(ssid)
        beta     == q5 - beta_neg
        gammaK   == homo_mult(pkj, gamma_i % pkj.n, Kj)
        Dji      == homo_add(pkj, gammaK, encrypt_with_randomness(pkj, beta_neg % pkj.n, sij))
        Fji      == encrypt_with_randomness(pki, beta_neg % pki.n, rij)
        proof    == ProofAffg_new_proof(ssid, pkj, pki, NCap, s, t, Kj, Dji, Fji,
                                        BigGamma_i, gamma_i % ec_n, beta_neg, sij, rij)
    IN  IF proof.err # "ok" THEN proof
        ELSE Returned([Dji |-> Dji, Fji |-> Fji, sij |-> sij, rij |-> rij,
                       beta |-> beta, Proofji |-> proof.val])

\* ------------------------------------------------------------------------
\* Presigning (ecdsa/presigning.py)
\* ------------------------------------------------------------------------
\* Presigning.__init__(party_id, ec, keygen_data, aux_data) with its draws:
\* the scalars k_i, gamma_i and the encryption randomness rho_i, nu_i
Presigning_init(id, kd, ad, k_i, gamma_i, rho_i, nu_i) ==
    [id |-> id, ssid |-> kd.ssid, xi |-> kd.xi, Xi |-> kd.Xi, Xj |-> kd.Xj,
     paillier_pub_i |-> ad.paillier_pub_i, paillier_priv_i |-> ad.paillier_priv_i,
     si |-> ad.si, ti |-> ad.ti,
     paillier_pub_j |-> ad.paillier_pub_j, sj |-> ad.sj, tj |-> ad.tj,
     k_i |-> k_i, gamma_i |-> gamma_i,
     K_i_ct |-> encrypt_with_randomness(ad.paillier_pub_i, k_i, rho_i), rho_i |-> rho_i,
     G_i_ct |-> encrypt_with_randomness(ad.paillier_pub_i, gamma_i, nu_i), nu_i |-> nu_i,
     Gamma_i |-> scalar_base_mult(gamma_i),
     K_j_ct |-> NoneVal, Gamma |-> NoneVal, vdelta_i |-> NoneVal, delta |-> NoneInt,
     beta_ij |-> NoneInt, _beta_ij |-> NoneInt, delta_i |-> NoneInt, chi_i |-> NoneInt]

\* Presigning.round1()
Presigning_round1(ps) ==
    LET proof_enck_i == ProofEnc_new_proof(ps.ssid, ps.paillier_pub_i, ps.K_i_ct,
                                           ps.paillier_pub_j.n, ps.sj, ps.tj,
                                           ps.k_i, ps.rho_i)
    IN  Returned([K_ct |-> ps.K_i_ct, G_ct |-> ps.G_i_ct, proofenc |-> proof_enck_i.val])

\* Presigning.round2(msg_j_r1); acc: whether the counterparty's Enc proof
\* passes; rnd: the encryption randomness <<sij, rij>> of the two new_mta calls
Presigning_round2(ps, msg_j_r1, acc, rnd) ==
    LET mtaG == new_mta(ps.ssid, msg_j_r1.K_ct, ps.gamma_i, ps.Gamma_i,
                        ps.paillier_pub_j, ps.paillier_pub_i,
                        ps.paillier_pub_j.n, ps.sj, ps.tj, rnd[1], rnd[2])
        mtaX == new_mta(ps.ssid, msg_j_r1.K_ct, ps.xi, ps.Xi,
                        ps.paillier_pub_j, ps.paillier_pub_i,
                        ps.paillier_pub_j.n, ps.sj, ps.tj, rnd[3], rnd[4])
        proof_logstar == ProofLogstar_new_proof(ps.ssid, ps.paillier_pub_i, ps.G_i_ct,
                                                ps.Gamma_i, ec_G, ps.nu_i, ps.gamma_i,
                                                ps.paillier_pub_j.n, ps.sj, ps.tj)
        \* self after self.K_j_ct, self.beta_ij and self._beta_ij are assigned
        ps1  == [ps EXCEPT !.K_j_ct = msg_j_r1.K_ct]
        ps2  == [ps EXCEPT !.K_j_ct = msg_j_r1.K_ct, !.beta_ij = mtaG.val.beta]
        ps3  == [ps EXCEPT !.K_j_ct = msg_j_r1.K_ct, !.beta_ij = mtaG.val.beta,
                           !._beta_ij = mtaX.val.beta]
    IN  IF ~ProofEnc_verify(msg_j_r1.proofenc, ps.ssid, ps.paillier_pub_j,
                            ps.paillier_pub_i.n, ps.si, ps.ti, msg_j_r1.K_ct, acc)
        THEN [self |-> ps, out |-> Raised("VerificationError")]
        ELSE IF mtaG.err # "ok" THEN [self |-> ps1, out |-> mtaG]
        ELSE IF mtaX.err # "ok" THEN [self |-> ps2, out |-> mtaX]
        ELSE IF proof_logstar.err # "ok" THEN [self |-> ps3, out |-> proof_logstar]
        ELSE [self |-> ps3,
              out  |-> Returned([Gamma |-> ps3.Gamma_i,
                                 D |-> mtaG.val.Dji, _D |-> mtaX.val.Dji,
                                 F |-> mtaG.val.Fji, _F |-> mtaX.val.Fji,
                                 psi_affg_gamma |-> mtaG.val.Proofji,
                                 psi_affg_xi |-> mtaX.val.Proofji,
                                 psi_logstar_gamma |-> proof_logstar.val])]

\* the share delta_i of Presigning.round3
Presigning_delta_i(gamma_i, k_i, alpha_ij, beta_ij) ==
    (gamma_i * k_i + alpha_ij + beta_ij) % ec_n

\* a faulty chi_i that leaves out the share the party decrypted
Presigning_chi_i_mut(xi, k_i, alpha_ij, beta_ij) ==
    (xi * k_i + beta_ij) % ec_n

\* the share chi_i of Presigning.round3
Presigning_chi_i(xi, k_i, alpha_ij, beta_ij) ==
    (xi * k_i + alpha_ij + beta_ij) % ec_n

\* Presigning.round3(G_j_ct, msg_j_r2); acc: whether the two Aff-g proofs and
\* the Log* proof of the counterparty pass
Presigning_round3(ps, G_j_ct, msg_j_r2, acc) ==
    LET Gamma    == point_add(ps.Gamma_i, msg_j_r2.Gamma)
        vdelta_i == scalar_mult(ps.k_i, Gamma)
        ps1      == [ps EXCEPT !.Gamma = Gamma, !.vdelta_i = vdelta_i]
        alpha_ij  == decrypt(ps.paillier_priv_i, msg_j_r2.D)
        _alpha_ij == decrypt(ps.paillier_priv_i, msg_j_r2._D)
        ps2      == [ps1 EXCEPT
                        !.delta_i = Presigning_delta_i(ps.gamma_i, ps.k_i, alpha_ij, ps.beta_ij),
                        !.chi_i   = Presigning_chi_i(ps.xi, ps.k_i, _alpha_ij, ps._beta_ij)]
        psi_logstar == ProofLogstar_new_proof(ps2.ssid, ps2.paillier_pub_i, ps2.K_i_ct,
                                              ps2.vdelta_i, ps2.Gamma, ps2.rho_i, ps2.k_i,
                                              ps2.paillier_pub_j.n, ps2.sj, ps2.tj)
    IN  IF ~ProofAffg_verify(msg_j_r2.psi_affg_gamma, ps.ssid, ps.paillier_pub_i,
                             ps.paillier_pub_j, ps.paillier_pub_i.n, ps.si, ps.ti,
                             ps.K_i_ct, msg_j_r2.D, msg_j_r2.F, msg_j_r2.Gamma, acc[1])
        THEN [self |-> ps, out |-> Raised("VerificationError")]
        ELSE IF ~ProofAffg_verify(msg_j_r2.psi_affg_xi, ps.ssid, ps.paillier_pub_i,
                                  ps.paillier_pub_j, ps.paillier_pub_i.n, ps.si, ps.ti,
                                  ps.K_i_ct, msg_j_r2._D, msg_j_r2._F, ps.Xj, acc[2])
        THEN [self |-> ps, out |-> Raised("VerificationError")]
        ELSE IF ~ProofLogstar_verify(msg_j_r2.psi_logstar_gamma, ps.ssid, ps.paillier_pub_j,
                                     G_j_ct, msg_j_r2.Gamma, ec_G,
                                     ps.paillier_pub_i.n, ps.si, ps.ti, acc[3])
        THEN [self |-> ps, out |-> Raised("VerificationError")]
        ELSE IF psi_logstar.err # "ok" THEN [self |-> ps2, out |-> psi_logstar]
        ELSE [self |-> ps2,
              out  |-> Returned([delta |-> ps2.delta_i, vdelta |-> ps2.vdelta_i,
                                 psi |-> psi_logstar.val])]

\* a faulty R that multiplies by delta without inverting it (sensitivity of C9)
Presigning_R_mut(delta, Gamma) == scalar_mult(delta, Gamma)

\* the nonce point R of Presigning.round_out
Presigning_R(delta, Gamma) == scalar_mult(invert(delta, ec_n), Gamma)

\* Presigning.round_out(msg_j_r3); acc: whether the counterparty's Log* proof passes
Presigning_round_out(ps, msg_j_r3, acc) ==
    LET delta == (ps.delta_i + msg_j_r3.delta) % ec_n
        ps1   == [ps EXCEPT !.delta = delta]
        expected_point == point_add(ps.vdelta_i, msg_j_r3.vdelta)
    IN  IF ~ProofLogstar_verify(msg_j_r3.psi, ps.ssid, ps.paillier_pub_j, ps.K_j_ct,
                                msg_j_r3.vdelta, ps.Gamma,
                                ps.paillier_pub_i.n, ps.si, ps.ti, acc)
        THEN [self |-> ps, out |-> Raised("VerificationError")]
        ELSE IF scalar_base_mult(delta) # expected_point
        THEN [self |-> ps1, out |-> Raised("VerificationError")]
        ELSE IF Gcd(delta, ec_n) # 1
        THEN [self |-> ps1, out |-> Raised("ZeroDivisionError")]
        ELSE [self |-> ps1,
              out  |-> Returned([R |-> Presigning_R(delta, ps.Gamma),
                                 k_i |-> ps.k_i, chi_i |-> ps.chi_i])]

\* ------------------------------------------------------------------------
\* Signing (ecdsa/signing.py)
\* ------------------------------------------------------------------------
\* int.from_bytes(hashlib.sha256(message).digest(), "big")
message_digest(message) == sha256_block(message)

\* Signing.__init__ without the test of r
Signing_init_mut(id, presig_data, X) ==
    Returned([id |-> id, X |-> X, R |-> presig_data.R, r |-> presig_data.R.x % ec_n,
              k_i |-> presig_data.k_i, chi_i |-> presig_data.chi_i, sigma_i |-> NoneInt])

\* Signing.__init__(id, ec, presig_data, X)
Signing_init(id, presig_data, X) ==
    LET r == presig_data.R.x % ec_n
    IN  IF r = 0 THEN Raised("ValueError")
        ELSE Returned([id |-> id, X |-> X, R |-> presig_data.R, r |-> r,
                       k_i |-> presig_data.k_i, chi_i |-> presig_data.chi_i,
                       sigma_i |-> NoneInt])

\* a faulty share that leaves r out (sensitivity of C1)
Signing_sigma_i_mut(k_i, h, chi_i, r) == (k_i * h + chi_i) % ec_n

\* the share sigma_i of Signing.sign
Signing_sigma_i(k_i, h, chi_i, r) == (k_i * h + chi_i * r) % ec_n

\* Signing.sign(message)
Signing_sign(sg, message) ==
    LET h   == message_digest(message)
        sg1 == [sg EXCEPT !.sigma_i = Signing_sigma_i(sg.k_i, h, sg.chi_i, sg.r)]
    IN  [self |-> sg1, out |-> Returned([sigma |-> sg1.sigma_i])]

\* the combined signature value s of Signing.verify
Signing_s(sigma_i, sigma_j) == (sigma_i + sigma_j) % ec_n

\* Signing.verify(message, msg_j)
Signing_verify(sg, message, msg_j) ==
    LET h == message_digest(message)
        s == Signing_s(sg.sigma_i, msg_j.sigma)
    IN  IF sg.sigma_i = NoneInt THEN Raised("TypeError")
        ELSE IF s = 0 THEN Raised("VerificationError")
        ELSE IF ~ec_verify(sg.X, h, sg.r, s) THEN Raised("VerificationError")
        ELSE Returned(TRUE)

\* ------------------------------------------------------------------------
\* The orchestrator (party.py).  A method is an operator from the Party
\* object pt (and the method's arguments and random draws) to the object
\* after the call, self, and the call's outcome, out.
\* ------------------------------------------------------------------------
\* Party.__init__(id)
Party_init(id) ==
    [id |-> id,
     keygen_protocol |-> NoneVal, aux_protocol |-> NoneVal,
     presigning_protocol |-> NoneVal, signing_protocol |-> NoneVal,
     p_other_msg_r1 |-> NoneVal,
     keygen_data |-> NoneVal, aux_data |-> NoneVal, presig_data |-> NoneVal]

\* Party.start_phase1()
Party_start_phase1(pt, xi, rid, alphai) ==
    [self |-> [pt EXCEPT !.keygen_protocol = Keygen_init(pt.id, xi, rid, alphai)],
     out  |-> Returned(NoneVal)]

\* Party.phase1_round1()
Party_phase1_round1(pt) ==
    IF IsNone(pt.keygen_protocol) THEN [self |-> pt, out |-> Raised("AttributeError")]
    ELSE [self |-> pt, out |-> Returned(Keygen_round1(pt.keygen_protocol))]

\* Party.phase1_round2(msg_j_r1)
Party_phase1_round2(pt, msg_j_r1) ==
    LET pt1 == [pt EXCEPT !.p_other_msg_r1 = msg_j_r1]
    IN  IF IsNone(pt.keygen_protocol) THEN [self |-> pt1, out |-> Raised("AttributeError")]
        ELSE [self |-> pt1, out |-> Returned(Keygen_round2(pt.keygen_protocol))]

\* Party.phase1_round3(msg_j_r2)
Party_phase1_round3(pt, msg_j_r2, alphaA) ==
    IF IsNone(pt.keygen_protocol) THEN [self |-> pt, out |-> Raised("AttributeError")]
    ELSE LET res == Keygen_round3(pt.keygen_protocol, pt.p_other_msg_r1, msg_j_r2, alphaA)
         IN  [self |-> [pt EXCEPT !.keygen_protocol = res.self], out |-> res.out]

\* Party.phase1_round_out(msg_j_r3)
Party_phase1_round_out(pt, msg_j_r3) ==
    IF IsNone(pt.p_other_msg_r1) \/ IsNone(pt.keygen_protocol)
    THEN [self |-> pt, out |-> Raised("AttributeError")]
    ELSE LET res == Keygen_round_out(pt.keygen_protocol, pt.p_other_msg_r1.id, msg_j_r3)
         IN  IF res.err # "ok" THEN [self |-> pt, out |-> res]
             ELSE [self |-> [pt EXCEPT !.keygen_data = res.val,
                                       !.keygen_protocol = NoneVal,
                                       !.p_other_msg_r1 = NoneVal],
                   out  |-> Returned([X |-> res.val.X])]

\* Party.start_phase2()
Party_start_phase2(pt, kp, lamd, r, rhoi) ==
    IF IsNone(pt.keygen_data) THEN [self |-> pt, out |-> Raised("AttributeError")]
    ELSE LET res == Aux_init(pt.id, pt.keygen_data.ssid, kp, lamd, r, rhoi)
         IN  IF res.err # "ok" THEN [self |-> pt, out |-> res]
             ELSE [self |-> [pt EXCEPT !.aux_protocol = res.val], out |-> Returned(NoneVal)]

\* Party.phase2_round1()
Party_phase2_round1(pt) ==
    IF IsNone(pt.aux_protocol) THEN [self |-> pt, out |-> Raised("AttributeError")]
    ELSE [self |-> pt, out |-> Returned(Aux_round1(pt.aux_protocol))]

\* Party.phase2_round2(msg_j_r1)
Party_phase2_round2(pt, msg_j_r1) ==
    LET pt1 == [pt EXCEPT !.p_other_msg_r1 = msg_j_r1]
    IN  IF IsNone(pt.aux_protocol) THEN [self |-> pt1, out |-> Raised("AttributeError")]
        ELSE [self |-> pt1, out |-> Returned(Aux_round2(pt.aux_protocol))]

\* Party.phase2_round3(msg_j_r2)
Party_phase2_round3(pt, msg_j_r2, acc) ==
    IF IsNone(pt.aux_protocol) THEN [self |-> pt, out |-> Raised("AttributeError")]
    ELSE LET res == Aux_round3(pt.aux_protocol, pt.p_other_msg_r1, msg_j_r2, acc)
         IN  [self |-> [pt EXCEPT !.aux_protocol = res.self], out |-> res.out]

\* phase2_round_out that keeps the stored round-1 message
Party_phase2_round_out_mut(pt, msg_j_r3, accMod, accFac) ==
    IF IsNone(pt.aux_protocol) THEN [self |-> pt, out |-> Raised("AttributeError")]
    ELSE LET res == Aux_round_out(pt.aux_protocol, msg_j_r3, accMod, accFac)
         IN  IF res.err # "ok" THEN [self |-> pt, out |-> res]
             ELSE [self |-> [pt EXCEPT !.aux_data = res.val,
                                       !.aux_protocol = NoneVal],
                   out  |-> Returned([n |-> res.val.paillier_pub_j.n])]

\* Party.phase2_round_out(msg_j_r3)
Party_phase2_round_out(pt, msg_j_r3, accMod, accFac) ==
    IF IsNone(pt.aux_protocol) THEN [self |-> pt, out |-> Raised("AttributeError")]
    ELSE LET res == Aux_round_out(pt.aux_protocol, msg_j_r3, accMod, accFac)
         IN  IF res.err # "ok" THEN [self |-> pt, out |-> res]
             ELSE [self |-> [pt EXCEPT !.aux_data = res.val,
                                       !.aux_protocol = NoneVal,
                                       !.p_other_msg_r1 = NoneVal],
                   out  |-> Returned([n |-> res.val.paillier_pub_j.n])]

\* Party.start_phase3()
Party_start_phase3(pt, k_i, gamma_i, rho_i, nu_i) ==
    IF IsNone(pt.keygen_data) \/ IsNone(pt.aux_data)
    THEN [self |-> pt, out |-> Raised("RuntimeError")]
    ELSE [self |-> [pt EXCEPT !.presigning_protocol =
                        Presigning_init(pt.id, pt.keygen_data, pt.aux_data,
                                        k_i, gamma_i, rho_i, nu_i)],
          out  |-> Returned(NoneVal)]

\* Party.phase3_round1()
Party_phase3_round1(pt) ==
    IF IsNone(pt.presigning_protocol) THEN [self |-> pt, out |-> Raised("AttributeError")]
    ELSE [self |-> pt, out |-> Presigning_round1(pt.presigning_protocol)]

\* a faulty phase3_round2 that does not store the counterparty's round-1 message
Party_phase3_round2_mut(pt, msg_j_r1, acc, rnd) ==
    IF IsNone(pt.presigning_protocol) THEN [self |-> pt, out |-> Raised("AttributeError")]
    ELSE LET res == Presigning_round2(pt.presigning_protocol, msg_j_r1, acc, rnd)
         IN  [self |-> [pt EXCEPT !.presigning_protocol = res.self], out |-> res.out]

\* Party.phase3_round2(msg_j_r1)
Party_phase3_round2(pt, msg_j_r1, acc, rnd) ==
    LET pt1 == [pt EXCEPT !.p_other_msg_r1 = msg_j_r1]
    IN  IF IsNone(pt.presigning_protocol) THEN [self |-> pt1, out |-> Raised("AttributeError")]
        ELSE LET res == Presigning_round2(pt.presigning_protocol, msg_j_r1, acc, rnd)
             IN  [self |-> [pt1 EXCEPT !.presigning_protocol = res.self], out |-> res.out]

\* Party.phase3_round3(msg_j_r2)
Party_phase3_round3(pt, msg_j_r2, acc) ==
    IF IsNone(pt.p_other_msg_r1) \/ IsNone(pt.presigning_protocol)
    THEN [self |-> pt, out |-> Raised("AttributeError")]
    ELSE LET G_j_ct == pt.p_other_msg_r1.G_ct
             res    == Presigning_round3(pt.presigning_protocol, G_j_ct, msg_j_r2, acc)
         IN  [self |-> [pt EXCEPT !.presigning_protocol = res.self], out |-> res.out]

\* a faulty phase3_round_out that changes the stored key share
Party_phase3_round_out_mut(pt, msg_j_r3, acc) ==
    IF IsNone(pt.presigning_protocol) THEN [self |-> pt, out |-> Raised("AttributeError")]
    ELSE LET res == Presigning_round_out(pt.presigning_protocol, msg_j_r3, acc)
         IN  IF res.out.err # "ok"
             THEN [self |-> [pt EXCEPT !.presigning_protocol = res.self], out |-> res.out]
             ELSE [self |-> [pt EXCEPT !.presig_data = res.out.val,
                                       !.presigning_protocol = NoneVal,
                                       !.p_other_msg_r1 = NoneVal,
                                       !.keygen_data.xi = (@ + 1) % ec_n],
                   out  |-> Returned([R |-> res.out.val.R])]

\* Party.phase3_round_out(msg_j_r3)
Party_phase3_round_out(pt, msg_j_r3, acc) ==
    IF IsNone(pt.presigning_protocol) THEN [self |-> pt, out |-> Raised("AttributeError")]
    ELSE LET res == Presigning_round_out(pt.presigning_protocol, msg_j_r3, acc)
         IN  IF res.out.err # "ok"
             THEN [self |-> [pt EXCEPT !.presigning_protocol = res.self], out |-> res.out]
             ELSE [self |-> [pt EXCEPT !.presig_data = res.out.val,
                                       !.presigning_protocol = NoneVal,
                                       !.p_other_msg_r1 = NoneVal],
                   out  |-> Returned([R |-> res.out.val.R])]

\* Party.start_phase4()
Party_start_phase4(pt) ==
    IF IsNone(pt.keygen_data) \/ IsNone(pt.presig_data)
    THEN [self |-> pt, out |-> Raised("RuntimeError")]
    ELSE LET res == Signing_init(pt.id, pt.presig_data, pt.keygen_data.X)
         IN  IF res.err # "ok" THEN [self |-> pt, out |-> res]
             ELSE [self |-> [pt EXCEPT !.signing_protocol = res.val],
                   out  |-> Returned(NoneVal)]

\* Party.phase4_sign(message)
Party_phase4_sign(pt, message) ==
    IF IsNone(pt.signing_protocol) THEN [self |-> pt, out |-> Raised("AttributeError")]
    ELSE LET res == Signing_sign(pt.signing_protocol, message)
         IN  [self |-> [pt EXCEPT !.signing_protocol = res.self], out |-> res.out]

\* a faulty phase4_verify that keeps the presignature
Party_phase4_verify_mut(pt, message, msg_j) ==
    IF IsNone(pt.signing_protocol) THEN [self |-> pt, out |-> Raised("AttributeError")]
    ELSE LET result == Signing_verify(pt.signing_protocol, message, msg_j)
         IN  IF result.err # "ok" THEN [self |-> pt, out |-> result]
             ELSE [self |-> [pt EXCEPT !.signing_protocol = NoneVal], out |-> result]

\* Party.phase4_verify(message, msg_j)
Party_phase4_verify(pt, message, msg_j) ==
    IF IsNone(pt.signing_protocol) THEN [self |-> pt, out |-> Raised("AttributeError")]
    ELSE LET result == Signing_verify(pt.signing_protocol, message, msg_j)
         IN  IF result.err # "ok" THEN [self |-> pt, out |-> result]
             ELSE [self |-> [pt EXCEPT !.signing_protocol = NoneVal,
                                       !.presig_data = NoneVal],
                   out  |-> result]

\* Party.get_secret_key_xi()
Party_get_secret_key_xi(pt) ==
    IF IsNone(pt.keygen_data) THEN NoneInt ELSE pt.keygen_data.xi

\* ------------------------------------------------------------------------
\* The proof classes of crypto/zkp with their input checks and their wire
\* format.  A call returns Returned(v) or Raised(e).  A byte string is the
\* sequence of its bytes.
\* ------------------------------------------------------------------------
\* Iterations of prm.py and mod.py
Iterations == 80

RECURSIVE to_bytes(_)
\* i.to_bytes((i.bit_length() + 7) // 8, "big") for i >= 0
to_bytes(i) == IF i = 0 THEN << >> ELSE Append(to_bytes(i \div 256), i % 256)

RECURSIVE from_bytes(_)
\* int.from_bytes(b, "big")
from_bytes(b) ==
    IF b = << >> THEN 0 ELSE from_bytes(SubSeq(b, 1, Len(b) - 1)) * 256 + b[Len(b)]

\* bb(i) of to_bytes_parts: the minimal big-endian bytes, b"" for zero
bb(i) == IF i # 0 THEN to_bytes(i) ELSE << >>

\* ib(b) of from_bytes: the integer of a part, 0 for b""
ib(b) == IF b # << >> THEN from_bytes(b) ELSE 0

\* [bb(f) for f in fields]: int.to_bytes raises OverflowError on a negative int
bytes_parts(fields) ==
    IF \E i \in 1 .. Len(fields) : fields[i] < 0 THEN Raised("OverflowError")
    ELSE Returned([i \in 1 .. Len(fields) |-> bb(fields[i])])

\* the integers handed to sha512_256i: to_bytes raises on a negative one
hash_raises(in_data) == \E i \in 1 .. Len(in_data) : in_data[i] < 0

\* ProofSchBytesParts
ProofSchBytesParts == 3

\* ProofSch.new_proof_with_alpha with its input check
Sch_new_proof_with_alpha(ssid, X, A, alpha, x) ==
    IF x = NoneInt \/ IsNone(X) \/ IsNone(A) \/ alpha = NoneInt THEN Raised("ValueError")
    ELSE IF ssid < 0 THEN Raised("OverflowError")
    ELSE Returned(ProofSch_new_proof_with_alpha(ssid, X, A, alpha, x))

\* ProofSch.new_proof with its input check; alpha is the draw of new_alpha
Sch_new_proof(ssid, X, x, alpha) ==
    IF x = NoneInt \/ IsNone(X) THEN Raised("ValueError")
    ELSE Sch_new_proof_with_alpha(ssid, X, scalar_base_mult(alpha), alpha, x)

\* ProofSch.from_bytes(ec, parts) with its arity check
Sch_from_bytes(parts) ==
    IF parts = << >> \/ Len(parts) # ProofSchBytesParts THEN Raised("ValueError")
    ELSE Returned([A |-> Point(from_bytes(parts[1]) % ec_p, from_bytes(parts[2]) % ec_p),
                   Z |-> from_bytes(parts[3]) % ec_n])

\* ProofSch.to_bytes_parts()
Sch_to_bytes_parts(pf) == bytes_parts(<<pf.A.x, pf.A.y, pf.Z>>)

\* ProofSch.verify(ssid, ec, X) with its None checks
Sch_verify(pf, ssid, X) ==
    IF IsNone(pf.A) \/ pf.Z = NoneInt \/ IsNone(X) THEN Returned(FALSE)
    ELSE IF ssid < 0 THEN Raised("OverflowError")
    ELSE Returned(ProofSch_verify(pf, ssid, X))

\* ProofPrmBytesParts
ProofPrmBytesParts == Iterations * 2

\* (e >> i) & 1 for e >= 0
bit(e, i) == IF i > 30 THEN 0 ELSE (e \div (2 ^ i)) % 2

\* the Fiat-Shamir challenge of ProofPrm: sha512_256i(ssid, s, t, N, *A)
Prm_challenge(ssid, s, t, N, A) == sha512_256i(<<ssid, s, t, N>> \o A)

\* ProofPrm.new_proof(ssid, s, t, N, Phi, lam); a are the draws of random.randrange(0, Phi)
Prm_new_proof(ssid, s, t, N, Phi, lam, a) ==
    IF s = NoneInt \/ t = NoneInt \/ N = NoneInt \/ Phi = NoneInt \/ lam = NoneInt
       \/ s = 0 \/ t = 0 \/ N = 0 \/ Phi = 0 \/ lam = 0
    THEN Raised("ValueError")
    ELSE LET A == [i \in 1 .. Iterations |-> powmod(t, a[i], N)]
             e == Prm_challenge(ssid, s, t, N, A)
         IN  IF hash_raises(<<ssid, s, t, N>>) THEN Raised("OverflowError")
             ELSE Returned([A |-> A,
                            Z |-> [i \in 1 .. Iterations |->
                                      (a[i] + bit(e, i - 1) * lam) % Phi]])

\* ProofPrm.from_bytes(parts)
Prm_from_bytes(parts) ==
    IF parts = << >> \/ Len(parts) # ProofPrmBytesParts THEN Raised("ValueError")
    ELSE LET bis == [i \in 1 .. Len(parts) |-> ib(parts[i])]
         IN  Returned([A |-> SubSeq(bis, 1, Iterations),
                       Z |-> SubSeq(bis, Iterations + 1, Len(bis))])

\* ProofPrm.to_bytes_parts()
Prm_to_bytes_parts(pf) == bytes_parts(pf.A \o pf.Z)

\* one round of the loop of ProofPrm.verify: t^Z_i == A_i * s^e_i (mod N);
\* NoneVal when the loop goes on to the next round
Prm_round(pf, s, t, N, e, i) ==
    IF i + 1 > Len(pf.Z) \/ i + 1 > Len(pf.A) THEN Raised("IndexError")
    ELSE IF powmod(t, pf.Z[i + 1], N) # (pf.A[i + 1] * powmod(s, bit(e, i), N)) % N
         THEN Returned(FALSE)
    ELSE NoneVal

\* the loop of ProofPrm.verify over i in range(Iterations): the first round that
\* leaves the loop decides, True after the last
Prm_equations(pf, s, t, N, e) ==
    LET out == {i \in 0 .. Iterations - 1 : Prm_round(pf, s, t, N, e, i) # NoneVal}
    IN  IF out = {} THEN Returned(TRUE)
        ELSE Prm_round(pf, s, t, N, e, CHOOSE i \in out : \A j \in out : i <= j)

\* ProofPrm.verify(ssid, s, t, N)
Prm_verify(pf, ssid, s, t, N) ==
    IF IsNone(pf.A) \/ IsNone(pf.Z) \/ s = 0 \/ t = 0 \/ N = 0 \/ N <= 0 THEN Returned(FALSE)
    ELSE IF hash_raises(<<ssid, s, t, N>> \o pf.A) THEN Raised("OverflowError")
    ELSE IF ~(1 < s % N /\ s % N < N) \/ ~(1 < t % N /\ t % N < N) \/ s % N = t % N
         THEN Returned(FALSE)
    ELSE IF \E i \in 1 .. Len(pf.A) : ~(1 < pf.A[i] /\ pf.A[i] < N) THEN Returned(FALSE)
    ELSE IF \E i \in 1 .. Len(pf.Z) : pf.Z[i] < 0 THEN Returned(FALSE)
    ELSE Prm_equations(pf, s, t, N, Prm_challenge(ssid, s, t, N, pf.A))

\* ProofModBytesParts
ProofModBytesParts == Iterations * 2 + 3

RECURSIVE jacobi_odd(_, _)
\* the Jacobi symbol (a/n) for odd n > 0
jacobi_odd(a, n) ==
    LET r == a % n
    IN  IF r = 0 THEN (IF n = 1 THEN 1 ELSE 0)
        ELSE IF r % 2 = 0
             THEN (IF n % 8 \in {3, 5} THEN -1 ELSE 1) * jacobi_odd(r \div 2, n)
        ELSE (IF r % 4 = 3 /\ n % 4 = 3 THEN -1 ELSE 1) * jacobi_odd(n % r, r)

\* gmpy2.jacobi(a, n) raises ValueError unless n is odd and positive
jacobi_raises(n) == n <= 0 \/ n % 2 = 0

\* is_quadratic_residue(x, n) for odd n > 0
is_quadratic_residue(x, n) == jacobi_odd(x, n) = 1

\* sample_invertible_with_neg_jacobi(n): the values it can return
sample_invertible_with_neg_jacobi(n) == {w \in 1 .. n - 1 : jacobi_odd(w, n) = -1}

RECURSIVE Mod_Y(_, _, _, _, _)
\* the Fiat-Shamir values Y_i = rejection_sample(N, sha512_256i(ssid, W, N, *Y[:i])):
\* Y extended by k further values
Mod_Y(ssid, W, N, Y, k) ==
    IF k = 0 \/ Len(Y) >= Iterations THEN Y
    ELSE IF k = 1 THEN Append(Y, rejection_sample(N, sha512_256i(<<ssid, W, N>> \o Y)))
    ELSE Mod_Y(ssid, W, N, Mod_Y(ssid, W, N, Y, k \div 2), k - k \div 2)

\* a bit length that always reads as 81 bytes
packed_bit_length_mut(A) == 8 * (Iterations + 1)

\* a packed choice vector is held as its big-endian bytes without leading zeros
packed_bit_length(A) == IF A = << >> THEN 0 ELSE 8 * (Len(A) - 1) + bit_length(A[1])

\* Yi after "if a > 0: Yi = -Yi % N" and "if b > 0: Yi = (W * Yi) % N"
Mod_candidate(Yi, W, N, a, b) ==
    LET y1 == IF a > 0 THEN (N - (Yi % N)) % N ELSE Yi
    IN  IF b > 0 THEN (W * y1) % N ELSE y1

\* the first j in range(4) whose candidate is a residue modulo P and Q, or 4
Mod_choice(Yi, W, N, P, Q) ==
    LET ok == {j \in 0 .. 3 :
                 LET c == Mod_candidate(Yi, W, N, j % 2, j \div 2)
                 IN  is_quadratic_residue(c, P) /\ is_quadratic_residue(c, Q)}
    IN  IF ok = {} THEN 4 ELSE CHOOSE j \in ok : \A k \in ok : j <= k

\* ProofMod.new_proof(ssid, N, P, Q); W is the draw of sample_invertible_with_neg_jacobi
Mod_new_proof(ssid, N, P, Q, W) ==
    IF N = NoneInt \/ P = NoneInt \/ Q = NoneInt \/ N = 0 \/ P = 0 \/ Q = 0
    THEN Raised("ValueError")
    ELSE IF jacobi_raises(N) THEN Raised("ValueError")
    ELSE IF ssid < 0 THEN Raised("OverflowError")
    ELSE LET Phi  == (P - 1) * (Q - 1)
             Y    == Mod_Y(ssid, W, N, << >>, Iterations)
         IN  IF Phi = 0 THEN Raised("ValueError")
             ELSE IF Gcd(N % Phi, Phi) # 1 THEN Raised("ValueError")
             ELSE IF jacobi_raises(P) \/ jacobi_raises(Q) THEN Raised("ValueError")
             ELSE LET invN == invert(N % Phi, Phi)
                      expo == powmod((Phi + 4) \div 8, 2, Phi)
                      ch   == [i \in 1 .. Iterations |-> Mod_choice(Y[i], W, N, P, Q)]
                      hit  == SelectSeq([i \in 1 .. Iterations |-> i], LAMBDA i : ch[i] < 4)
                  IN  Returned(
                        [W |-> W,
                         X |-> [i \in 1 .. Iterations |->
                                  IF ch[i] = 4 THEN 0
                                  ELSE powmod(Mod_candidate(Y[i], W, N, ch[i] % 2,
                                                            ch[i] \div 2), expo, N)],
                         A |-> <<255>> \o [k \in 1 .. Len(hit) |-> ch[hit[k]] % 2],
                         B |-> <<255>> \o [k \in 1 .. Len(hit) |-> ch[hit[k]] \div 2],
                         Z |-> [i \in 1 .. Iterations |->
                                  IF ch[i] = 4 THEN 0 ELSE powmod(Y[i], invN, N)]])

RECURSIVE strip_zeros(_)
\* the bytes of int.from_bytes(b, "big"): leading zero bytes carry no value
strip_zeros(b) == IF b # << >> /\ b[1] = 0 THEN strip_zeros(Tail(b)) ELSE b

\* ProofMod.from_bytes that rejects only an empty list of parts
Mod_from_bytes_mut(parts) ==
    IF parts = << >> THEN Raised("ValueError")
    ELSE Returned([W |-> ib(parts[1]),
                   X |-> [i \in 1 .. Iterations |-> ib(parts[1 + i])],
                   A |-> strip_zeros(parts[Iterations + 2]),
                   B |-> strip_zeros(parts[Iterations + 3]),
                   Z |-> [i \in 1 .. Len(parts) - Iterations - 3 |->
                             ib(parts[Iterations + 3 + i])]])

\* ProofMod.from_bytes(parts)
Mod_from_bytes(parts) ==
    IF parts = << >> \/ Len(parts) # ProofModBytesParts THEN Raised("ValueError")
    ELSE Returned([W |-> ib(parts[1]),
                   X |-> [i \in 1 .. Iterations |-> ib(parts[1 + i])],
                   A |-> strip_zeros(parts[Iterations + 2]),
                   B |-> strip_zeros(parts[Iterations + 3]),
                   Z |-> [i \in 1 .. Len(parts) - Iterations - 3 |->
                             ib(parts[Iterations + 3 + i])]])

\* ProofMod.to_bytes_parts()
Mod_to_bytes_parts(pf) ==
    IF pf.W < 0 \/ (\E i \in 1 .. Len(pf.X) : pf.X[i] < 0) \/ (\E i \in 1 .. Len(pf.Z) : pf.Z[i] < 0)
    THEN Raised("OverflowError")
    ELSE Returned(<<bb(pf.W)>> \o [i \in 1 .. Len(pf.X) |-> bb(pf.X[i])]
                  \o <<pf.A, pf.B>> \o [i \in 1 .. Len(pf.Z) |-> bb(pf.Z[i])])

\* (A >> 8 * (Iterations - 1 - i)) & 0xFF for a vector of Iterations + 1 bytes
choice_byte(A, i) == A[Len(A) - (Iterations - 1 - i)]

\* one round of the loop of ProofMod.verify; NoneVal when the loop goes on
Mod_round(pf, N, Y, W, i) ==
    IF i + 1 > Len(pf.Z) THEN Raised("IndexError")
    ELSE IF powmod(pf.Z[i + 1], N, N) # Y[i + 1] THEN Returned(FALSE)
    ELSE IF choice_byte(pf.A, i) \notin {0, 1} \/ choice_byte(pf.B, i) \notin {0, 1}
         THEN Returned(FALSE)
    ELSE IF i + 1 > Len(pf.X) THEN Raised("IndexError")
    ELSE IF powmod(pf.X[i + 1], 4, N)
              # Mod_candidate(Y[i + 1], W, N, choice_byte(pf.A, i), choice_byte(pf.B, i))
         THEN Returned(FALSE)
    ELSE NoneVal

\* the loop of ProofMod.verify over i in range(Iterations): the first round that
\* leaves the loop decides, True after the last
Mod_equations(pf, N, Y, W) ==
    LET out == {i \in 0 .. Iterations - 1 : Mod_round(pf, N, Y, W, i) # NoneVal}
    IN  IF out = {} THEN Returned(TRUE)
        ELSE Mod_round(pf, N, Y, W, CHOOSE i \in out : \A j \in out : i <= j)

\* ProofMod.verify(ssid, N)
Mod_verify(pf, ssid, N) ==
    IF IsNone(pf.X) \/ IsNone(pf.A) \/ IsNone(pf.B) \/ IsNone(pf.Z) \/ N = 0
    THEN Returned(FALSE)
    ELSE IF jacobi_raises(N) THEN Raised("ValueError")
    ELSE IF is_quadratic_residue(pf.W, N) THEN Returned(FALSE)
    ELSE IF ~(/\ 0 < pf.W /\ pf.W < N
             /\ (\A i \in 1 .. Len(pf.Z) : 0 < pf.Z[i] /\ pf.Z[i] < N)
             /\ (\A i \in 1 .. Len(pf.X) : 0 < pf.X[i] /\ pf.X[i] < N))
         THEN Returned(FALSE)
    ELSE IF ~(8 * (Iterations + 1) - 8 < packed_bit_length(pf.A)
              /\ packed_bit_length(pf.A) <= 8 * (Iterations + 1))
         THEN Returned(FALSE)
    ELSE IF ~(8 * (Iterations + 1) - 8 < packed_bit_length(pf.B)
              /\ packed_bit_length(pf.B) <= 8 * (Iterations + 1))
         THEN Returned(FALSE)
    ELSE IF ssid < 0 THEN Raised("OverflowError")
    ELSE IF N % 2 = 0 THEN Returned(FALSE)
    ELSE Mod_equations(pf, N, Mod_Y(ssid, pf.W, N, << >>, Iterations), pf.W)

\* is_in_interval(x, bound)
is_in_interval(x, bound) == 0 <= x /\ x < bound

\* check_invertible_and_valid_mod(modulus, *vals)
check_invertible_and_valid_mod(modulus, vals) ==
    \A i \in 1 .. Len(vals) :
        0 < vals[i] /\ vals[i] < modulus /\ Gcd(vals[i], modulus) = 1

\* gmpy2.powmod(b, e, m) raises ValueError for e < 0 when b has no inverse modulo m
gmpy2_powmod_raises(b, e, m) == e < 0 /\ Gcd(b % m, m) # 1

\* gmpy2.powmod(b, e, m) for m > 0 and any exponent it is defined for
gmpy2_powmod(b, e, m) ==
    IF e >= 0 THEN powmod_wide(b % m, e, m)
    ELSE powmod_wide(invert(b % m, m), 0 - e, m)

\* pk.n_square
n_square(pk) == pk.n * pk.n

\* pk.gamma
pk_gamma(pk) == pk.n + 1

\* ProofEncBytesParts
ProofEncBytesParts == 6

\* the Fiat-Shamir challenge of ProofEnc
Enc_challenge(ssid, pk, NCap, s, t, K, S, A, C) ==
    rejection_sample(ec_n,
        sha512_256i(<<ssid, pk.n, pk_gamma(pk), ec_b, ec_n, ec_p, NCap, s, t, K, S, A, C>>))

\* ProofEnc.new_proof; alpha, mu, gamma, r are its draws
Enc_new_proof(ssid, pk, K, NCap, s, t, k, rho, alpha, mu, gamma, r) ==
    IF IsNone(pk) \/ K = NoneInt \/ NCap = NoneInt \/ s = NoneInt \/ t = NoneInt
       \/ k = NoneInt \/ rho = NoneInt
    THEN Raised("ValueError")
    ELSE IF NCap <= 0 \/ pk.n <= 1 THEN Raised("ValueError")
    ELSE IF ssid < 0 THEN Raised("OverflowError")
    ELSE LET N   == pk.n
             NSq == n_square(pk)
             S   == mulmod(powmod_wide(s % NCap, k, NCap), powmod_wide(t % NCap, mu, NCap), NCap)
             A   == mulmod(powmod_wide(pk_gamma(pk), alpha, NSq), powmod_wide(r, N, NSq), NSq)
             C   == mulmod(powmod_wide(s % NCap, alpha, NCap),
                           powmod_wide(t % NCap, gamma, NCap), NCap)
             e   == Enc_challenge(ssid, pk, NCap, s, t, K, S, A, C)
         IN  Returned([S |-> S, A |-> A, C |-> C, Z1 |-> e * k + alpha,
                       Z2 |-> mulmod(powmod_wide(rho % N, e, N), r, N),
                       Z3 |-> e * mu + gamma])

\* ProofEnc.from_bytes(parts)
Enc_from_bytes(parts) ==
    IF parts = << >> \/ Len(parts) # ProofEncBytesParts THEN Raised("ValueError")
    ELSE Returned([S |-> ib(parts[1]), A |-> ib(parts[2]), C |-> ib(parts[3]),
                   Z1 |-> ib(parts[4]), Z2 |-> ib(parts[5]), Z3 |-> ib(parts[6])])

\* ProofEnc.to_bytes_parts()
Enc_to_bytes_parts(pf) == bytes_parts(<<pf.S, pf.A, pf.C, pf.Z1, pf.Z2, pf.Z3>>)

\* ProofEnc.verify(ssid, ec, pk, NCap, s, t, K)
Enc_verify(pf, ssid, pk, NCap, s, t, K) ==
    IF IsNone(pk) \/ NCap = 0 \/ s = 0 \/ t = 0 \/ K = 0 THEN Returned(FALSE)
    ELSE IF ~is_in_interval(pf.Z1, ec_n ^ 3) THEN Returned(FALSE)
    ELSE IF ~check_invertible_and_valid_mod(NCap, <<pf.S, pf.C>>) THEN Returned(FALSE)
    ELSE IF ~check_invertible_and_valid_mod(n_square(pk), <<pf.A>>) THEN Returned(FALSE)
    ELSE IF ~check_invertible_and_valid_mod(pk.n, <<pf.Z2>>) THEN Returned(FALSE)
    ELSE IF hash_raises(<<ssid, s, t, K>>) THEN Raised("OverflowError")
    ELSE LET NSq == n_square(pk)
             e   == Enc_challenge(ssid, pk, NCap, s, t, K, pf.S, pf.A, pf.C)
         IN  IF mulmod(powmod_wide(pk_gamma(pk), pf.Z1, NSq), powmod_wide(pf.Z2, pk.n, NSq), NSq)
                  # mulmod(pf.A, powmod_wide(K % NSq, e, NSq), NSq)
             THEN Returned(FALSE)
             ELSE IF gmpy2_powmod_raises(t, pf.Z3, NCap) THEN Raised("ValueError")
             ELSE IF mulmod(powmod_wide(s % NCap, pf.Z1, NCap), gmpy2_powmod(t, pf.Z3, NCap), NCap)
                       # mulmod(pf.C, powmod_wide(pf.S, e, NCap), NCap)
                  THEN Returned(FALSE)
             ELSE Returned(TRUE)

\* ProofLogstarBytesParts
ProofLogstarBytesParts == 8

\* the Fiat-Shamir challenge of ProofLogstar
Logstar_challenge(ssid, pk, C, X, g, S, A, Y, D, NCap, s, t) ==
    rejection_sample(ec_n,
        sha512_256i(<<ssid, pk.n, pk_gamma(pk), ec_b, ec_n, ec_p, C, X.x, X.y, g.x, g.y,
                      S, A, Y.x, Y.y, D, NCap, s, t>>))

\* ProofLogstar.new_proof; alpha, mu, gamma, r are its draws
Logstar_new_proof(ssid, pk, C, X, g, rho, x, NCap, s, t, alpha, mu, gamma, r) ==
    IF IsNone(pk) \/ C = NoneInt \/ IsNone(X) \/ IsNone(g) \/ NCap = NoneInt \/ s = NoneInt
       \/ t = NoneInt \/ x = NoneInt \/ rho = NoneInt
    THEN Raised("ValueError")
    ELSE IF scalar_mult(C % ec_n, g) = X THEN Raised("ValueError")
    ELSE IF NCap <= 0 \/ pk.n <= 1 THEN Raised("ValueError")
    ELSE IF ssid < 0 THEN Raised("OverflowError")
    ELSE LET N   == pk.n
             NSq == n_square(pk)
             S   == mulmod(powmod_wide(s % NCap, x, NCap), powmod_wide(t % NCap, mu, NCap), NCap)
             A   == mulmod(powmod_wide(pk_gamma(pk), alpha, NSq), powmod_wide(r, N, NSq), NSq)
             Y   == scalar_mult(alpha % ec_n, g)
             D   == mulmod(powmod_wide(s % NCap, alpha, NCap),
                           powmod_wide(t % NCap, gamma, NCap), NCap)
             e   == Logstar_challenge(ssid, pk, C, X, g, S, A, Y, D, NCap, s, t)
         IN  Returned([S |-> S, A |-> A, Y |-> Y, D |-> D, Z1 |-> e * x + alpha,
                       Z2 |-> mulmod(powmod_wide(rho % N, e, N), r, N),
                       Z3 |-> e * mu + gamma])

\* ProofLogstar.from_bytes(ec, parts)
Logstar_from_bytes(parts) ==
    IF parts = << >> \/ Len(parts) # ProofLogstarBytesParts THEN Raised("ValueError")
    ELSE Returned([S |-> ib(parts[1]), A |-> ib(parts[2]),
                   Y |-> Point(ib(parts[3]), ib(parts[4])), D |-> ib(parts[5]),
                   Z1 |-> ib(parts[6]), Z2 |-> ib(parts[7]), Z3 |-> ib(parts[8])])

\* ProofLogstar.to_bytes_parts()
Logstar_to_bytes_parts(pf) ==
    bytes_parts(<<pf.S, pf.A, pf.Y.x, pf.Y.y, pf.D, pf.Z1, pf.Z2, pf.Z3>>)

\* ProofLogstar.verify(ssid, ec, pk, C, X, g, NCap, s, t)
Logstar_verify(pf, ssid, pk, C, X, g, NCap, s, t) ==
    IF IsNone(pf.Y) \/ IsNone(pk) \/ C = 0 \/ IsNone(X) \/ IsNone(g)
       \/ NCap = 0 \/ s = 0 \/ t = 0
    THEN Returned(FALSE)
    ELSE IF ~is_in_interval(pf.Z1, ec_n ^ 3) THEN Returned(FALSE)
    ELSE IF ~check_invertible_and_valid_mod(NCap, <<pf.S, pf.D>>) THEN Returned(FALSE)
    ELSE IF ~check_invertible_and_valid_mod(n_square(pk), <<pf.A>>) THEN Returned(FALSE)
    ELSE IF ~check_invertible_and_valid_mod(pk.n, <<pf.Z2>>) THEN Returned(FALSE)
    ELSE IF hash_raises(<<ssid, C, s, t>>) THEN Raised("OverflowError")
    ELSE LET NSq == n_square(pk)
             e   == Logstar_challenge(ssid, pk, C, X, g, pf.S, pf.A, pf.Y, pf.D, NCap, s, t)
         IN  IF mulmod(powmod_wide(pk_gamma(pk), pf.Z1, NSq), powmod_wide(pf.Z2, pk.n, NSq), NSq)
                  # mulmod(powmod_wide(C % NSq, e, NSq), pf.A, NSq)
             THEN Returned(FALSE)
             ELSE IF scalar_mult(pf.Z1 % ec_n, g) # point_add(scalar_mult(e, X), pf.Y)
                  THEN Returned(FALSE)
             ELSE IF gmpy2_powmod_raises(t, pf.Z3, NCap) THEN Raised("ValueError")
             ELSE IF mulmod(powmod_wide(s % NCap, pf.Z1, NCap), gmpy2_powmod(t, pf.Z3, NCap), NCap)
                       # mulmod(pf.D, powmod_wide(pf.S, e, NCap), NCap)
                  THEN Returned(FALSE)
             ELSE Returned(TRUE)

\* ProofFacBytesParts
ProofFacBytesParts == 11

\* gmpy2.isqrt(n) for n >= 0
isqrt(n) == CHOOSE k \in 0 .. n : k * k <= n /\ (k + 1) * (k + 1) > n

\* s^a * t^b mod NCap, the Ring-Pedersen commitment all proofs use
pedersen(s, a, t, b, NCap) ==
    mulmod(powmod_wide(s % NCap, a, NCap), gmpy2_powmod(t, b, NCap), NCap)

\* the Fiat-Shamir challenge of ProofFac
Fac_challenge(ssid, N0, NCap, s, t, P, Q, A, B, T, sigma) ==
    rejection_sample(ec_n,
        sha512_256i(<<ssid, N0, NCap, s, t, P, Q, A, B, T, sigma, ec_b, ec_n, ec_p>>))

\* ProofFac.new_proof; rnd holds its draws alpha, beta, mu, nu, sigma, x, y, r
Fac_new_proof(ssid, N0, NCap, s, t, N0p, N0q, rnd) ==
    IF N0 = NoneInt \/ NCap = NoneInt \/ s = NoneInt \/ t = NoneInt \/ N0p = NoneInt
       \/ N0q = NoneInt \/ N0 = 0 \/ NCap = 0 \/ s = 0 \/ t = 0 \/ N0p = 0 \/ N0q = 0
    THEN Raised("ValueError")
    ELSE IF N0 < 0 \/ NCap < 0 THEN Raised("ValueError")
    ELSE IF ssid < 0 THEN Raised("OverflowError")
    ELSE LET P == pedersen(s, N0p, t, rnd.mu, NCap)
             Q == pedersen(s, N0q, t, rnd.nu, NCap)
             A == pedersen(s, rnd.alpha, t, rnd.x, NCap)
             B == pedersen(s, rnd.beta, t, rnd.y, NCap)
             T == pedersen(Q, rnd.alpha, t, rnd.r, NCap)
             e == Fac_challenge(ssid, N0, NCap, s, t, P, Q, A, B, T, rnd.sigma)
         IN  Returned([P |-> P, Q |-> Q, A |-> A, B |-> B, T |-> T, Sigma |-> rnd.sigma,
                       Z1 |-> e * N0p + rnd.alpha, Z2 |-> e * N0q + rnd.beta,
                       W1 |-> e * rnd.mu + rnd.x, W2 |-> e * rnd.nu + rnd.y,
                       V  |-> e * (rnd.sigma - (rnd.nu * N0p)) + rnd.r])

\* ProofFac.from_bytes(parts)
Fac_from_bytes(parts) ==
    IF parts = << >> \/ Len(parts) # ProofFacBytesParts THEN Raised("ValueError")
    ELSE Returned([P |-> ib(parts[1]), Q |-> ib(parts[2]), A |-> ib(parts[3]),
                   B |-> ib(parts[4]), T |-> ib(parts[5]), Sigma |-> ib(parts[6]),
                   Z1 |-> ib(parts[7]), Z2 |-> ib(parts[8]), W1 |-> ib(parts[9]),
                   W2 |-> ib(parts[10]), V |-> ib(parts[11])])

\* ProofFac.to_bytes_parts()
Fac_to_bytes_parts(pf) ==
    bytes_parts(<<pf.P, pf.Q, pf.A, pf.B, pf.T, pf.Sigma, pf.Z1, pf.Z2, pf.W1, pf.W2, pf.V>>)

\* ProofFac.verify(ssid, ec, N0, NCap, s, t)
Fac_verify(pf, ssid, N0, NCap, s, t) ==
    IF N0 = 0 \/ NCap = 0 \/ s = 0 \/ t = 0 THEN Returned(FALSE)
    ELSE IF N0 <= 0 \/ NCap <= 0 THEN Returned(FALSE)
    ELSE IF ~is_in_interval(pf.Z1, (ec_n ^ 3) * isqrt(N0)) THEN Returned(FALSE)
    ELSE IF ~is_in_interval(pf.Z2, (ec_n ^ 3) * isqrt(N0)) THEN Returned(FALSE)
    ELSE IF ~check_invertible_and_valid_mod(NCap, <<pf.P, pf.Q, pf.A, pf.B, pf.T>>)
         THEN Returned(FALSE)
    ELSE IF hash_raises(<<ssid, s, t, pf.Sigma>>) THEN Raised("OverflowError")
    ELSE LET e == Fac_challenge(ssid, N0, NCap, s, t, pf.P, pf.Q, pf.A, pf.B, pf.T, pf.Sigma)
         IN  IF gmpy2_powmod_raises(t, pf.W1, NCap) THEN Raised("ValueError")
             ELSE IF pedersen(s, pf.Z1, t, pf.W1, NCap)
                       # mulmod(pf.A, powmod_wide(pf.P, e, NCap), NCap)
                  THEN Returned(FALSE)
             ELSE IF gmpy2_powmod_raises(t, pf.W2, NCap) THEN Raised("ValueError")
             ELSE IF pedersen(s, pf.Z2, t, pf.W2, NCap)
                       # mulmod(pf.B, powmod_wide(pf.Q, e, NCap), NCap)
                  THEN Returned(FALSE)
             ELSE IF gmpy2_powmod_raises(t, pf.V, NCap) THEN Raised("ValueError")
             ELSE IF pedersen(pf.Q, pf.Z1, t, pf.V, NCap)
                       # mulmod(pf.T, powmod_wide(pedersen(s, N0, t, pf.Sigma, NCap), e, NCap),
                                NCap)
                  THEN Returned(FALSE)
             ELSE Returned(TRUE)

\* ProofAffgBytesParts
ProofAffgBytesParts == 14

\* the Fiat-Shamir challenge of ProofAffg
Affg_challenge(ssid, pk0, pk1, NCap, s, t, C, D, Y, X, S, T, A, Bx, By, E, F) ==
    rejection_sample(ec_n,
        sha512_256i(<<ssid, ec_b, ec_n, ec_p, pk0.n, pk1.n, NCap, s, t, C, D, Y, X.x, X.y,
                      S, T, A, Bx.x, Bx.y, By, E, F>>))

\* ProofAffg.new_proof; rnd holds its draws alpha, beta, r, ry, gamma, m, delta, mu
Affg_new_proof(ssid, pk0, pk1, NCap, s, t, C, D, Y, X, x, y, rho, rhoy, rnd) ==
    IF IsNone(pk0) \/ IsNone(pk1) \/ IsNone(X)
       \/ (\E v \in {NCap, s, t, C, D, Y, x, y, rho, rhoy} : v = NoneInt \/ v = 0)
    THEN Raised("ValueError")
    ELSE IF NCap < 0 \/ pk0.n <= 1 \/ pk1.n <= 1 THEN Raised("ValueError")
    ELSE IF ssid < 0 THEN Raised("OverflowError")
    ELSE LET N0   == pk0.n
             N1   == pk1.n
             NSq0 == n_square(pk0)
             NSq1 == n_square(pk1)
             A    == mulmod(mulmod(powmod_wide(C % NSq0, rnd.alpha, NSq0),
                                   powmod_wide(pk_gamma(pk0), rnd.beta, NSq0), NSq0),
                            powmod_wide(rnd.r, N0, NSq0), NSq0)
             Bx   == scalar_base_mult(rnd.alpha % ec_n)
             By   == mulmod(powmod_wide(pk_gamma(pk1), rnd.beta, NSq1),
                            powmod_wide(rnd.ry, N1, NSq1), NSq1)
             E    == pedersen(s, rnd.alpha, t, rnd.gamma, NCap)
             S    == pedersen(s, x, t, rnd.m, NCap)
             F    == pedersen(s, rnd.beta, t, rnd.delta, NCap)
             T    == pedersen(s, y, t, rnd.mu, NCap)
             e    == Affg_challenge(ssid, pk0, pk1, NCap, s, t, C, D, Y, X, S, T, A, Bx, By, E, F)
         IN  Returned([S |-> S, T |-> T, A |-> A, Bx |-> Bx, By |-> By, E |-> E, F |-> F,
                       Z1 |-> e * x + rnd.alpha, Z2 |-> e * y + rnd.beta,
                       Z3 |-> e * rnd.m + rnd.gamma, Z4 |-> e * rnd.mu + rnd.delta,
                       W  |-> mulmod(powmod_wide(rho % N0, e, N0), rnd.r, N0),
                       Wy |-> mulmod(powmod_wide(rhoy % N1, e, N1), rnd.ry, N1)])

\* ProofAffg.from_bytes(ec, parts)
Affg_from_bytes(parts) ==
    IF parts = << >> \/ Len(parts) # ProofAffgBytesParts THEN Raised("ValueError")
    ELSE Returned([S |-> ib(parts[1]), T |-> ib(parts[2]), A |-> ib(parts[3]),
                   Bx |-> Point(ib(parts[4]), ib(parts[5])), By |-> ib(parts[6]),
                   E |-> ib(parts[7]), F |-> ib(parts[8]), Z1 |-> ib(parts[9]),
                   Z2 |-> ib(parts[10]), Z3 |-> ib(parts[11]), Z4 |-> ib(parts[12]),
                   W |-> ib(parts[13]), Wy |-> ib(parts[14])])

\* ProofAffg.to_bytes_parts()
Affg_to_bytes_parts(pf) ==
    bytes_parts(<<pf.S, pf.T, pf.A, pf.Bx.x, pf.Bx.y, pf.By, pf.E, pf.F,
                  pf.Z1, pf.Z2, pf.Z3, pf.Z4, pf.W, pf.Wy>>)

\* ProofAffg.verify(ssid, ec, pk0, pk1, NCap, s, t, C, D, Y, X)
Affg_verify(pf, ssid, pk0, pk1, NCap, s, t, C, D, Y, X) ==
    IF IsNone(pf.Bx) THEN Returned(FALSE)
    ELSE IF IsNone(pk0) \/ IsNone(pk1) THEN Raised("AttributeError")
    ELSE IF ~is_in_interval(pf.Z1, ec_n ^ 3) THEN Returned(FALSE)
    ELSE IF ~is_in_interval(pf.Z2, ec_n ^ 7) THEN Returned(FALSE)
    ELSE IF ~check_invertible_and_valid_mod(n_square(pk0), <<pf.A>>) THEN Returned(FALSE)
    ELSE IF ~check_invertible_and_valid_mod(n_square(pk1), <<pf.By>>) THEN Returned(FALSE)
    ELSE IF ~check_invertible_and_valid_mod(pk0.n, <<pf.W>>) THEN Returned(FALSE)
    ELSE IF ~check_invertible_and_valid_mod(pk1.n, <<pf.Wy>>) THEN Returned(FALSE)
    ELSE IF ~check_invertible_and_valid_mod(NCap, <<pf.E, pf.F, pf.S, pf.T>>)
         THEN Returned(FALSE)
    ELSE IF Min(Min(pf.Z1, pf.Z2), Min(pf.Z3, pf.Z4)) <= 0 THEN Returned(FALSE)
    ELSE IF hash_raises(<<ssid, s, t, C, D, Y>>) THEN Raised("OverflowError")
    ELSE IF IsNone(X) THEN Raised("AttributeError")
    ELSE LET NSq0 == n_square(pk0)
             NSq1 == n_square(pk1)
             e    == Affg_challenge(ssid, pk0, pk1, NCap, s, t, C, D, Y, X,
                                    pf.S, pf.T, pf.A, pf.Bx, pf.By, pf.E, pf.F)
         IN  IF mulmod(mulmod(powmod_wide(C % NSq0, pf.Z1, NSq0),
                              powmod_wide(pk_gamma(pk0), pf.Z2, NSq0), NSq0),
                       powmod_wide(pf.W, pk0.n, NSq0), NSq0)
                  # mulmod(powmod_wide(D % NSq0, e, NSq0), pf.A, NSq0)
             THEN Returned(FALSE)
             ELSE IF scalar_base_mult(pf.Z1 % ec_n) # point_add(scalar_mult(e, X), pf.Bx)
                  THEN Returned(FALSE)
             ELSE IF mulmod(powmod_wide(pk_gamma(pk1), pf.Z2, NSq1),
                            powmod_wide(pf.Wy, pk1.n, NSq1), NSq1)
                       # mulmod(powmod_wide(Y % NSq1, e, NSq1), pf.By, NSq1)
                  THEN Returned(FALSE)
             ELSE IF pedersen(s, pf.Z1, t, pf.Z3, NCap)
                       # mulmod(powmod_wide(pf.S, e, NCap), pf.E, NCap)
                  THEN Returned(FALSE)
             ELSE IF pedersen(s, pf.Z2, t, pf.Z4, NCap)
                       # mulmod(powmod_wide(pf.T, e, NCap), pf.F, NCap)
                  THEN Returned(FALSE)
             ELSE Returned(TRUE)

\* ------------------------------------------------------------------------
\* The honest two-party run (simulate.py): main() calls the methods of p0
\* and p1 in a fixed order, hands each party the other's last message, and
\* stops at the first exception or failed assert.
\* ------------------------------------------------------------------------
VARIABLES
    party,        \* the Party objects p0, p1 (simulate.py) / client.party (main.py)
    sim_pc,       \* position of simulate.main in Script; -k once statement k has raised
    sim_local,    \* the local variables of simulate.main / exp1.py holding the messages
    ret,          \* outcome of the last method call of the script
    client,       \* the attributes of the Party1Client of main.py besides party
    line,         \* the command main() read last
    response,     \* the response main() printed last
    running,      \* main() is in its loop over stdin
    cli_pc,       \* position of the client script (exp1.py) in ClientScript
    presig_signs, \* calls of Signing.sign since client.party last stored a presignature
    since_sign,   \* the (phase, action) accepted since the last accepted sign, that one first
    zkp,          \* the last call on a proof class of crypto/zkp: its inputs and outcome
    lib           \* the last call on a function of crypto/ called on its own

\* the variables of the server and its client
srv_vars == <<client, line, response, running, cli_pc, presig_signs, since_sign>>

\* the draws of ec.random_scalar() for x_i and k_i
ScalarDraws == {k \in random_scalar : k <= MaxScalar}
\* the draws of ec.random_scalar() for gamma_i
NonceDraws == {k \in random_scalar : k <= MaxNonce}
\* the draws of ProofSch.new_alpha
AlphaDraws == {k \in random_scalar : k <= MaxAlpha}
\* the draws of os.urandom(32) for rid
RidDraws == 0 .. MaxRid
\* the draws of get_random_positive_relatively_prime_int(n)
EncRandDraws(n) == {x \in 1 .. Min(MaxEncRand, n - 1) : Gcd(x, n) = 1}
\* the messages that are signed
Messages == 0 .. MaxMessage

\* the statements of simulate.main in order: <<method, party>>
Script ==
    << <<"start_phase1", 0>>, <<"start_phase1", 1>>, <<"phase1_round1", 0>>,
      <<"phase1_round1", 1>>, <<"phase1_round2", 0>>, <<"phase1_round2", 1>>,
      <<"phase1_round3", 0>>, <<"phase1_round3", 1>>, <<"phase1_round_out", 0>>,
      <<"phase1_round_out", 1>>, <<"assert", 0>>, <<"start_phase2", 0>>,
      <<"start_phase2", 1>>, <<"phase2_round1", 0>>, <<"phase2_round1", 1>>,
      <<"phase2_round2", 0>>, <<"phase2_round2", 1>>, <<"phase2_round3", 0>>,
      <<"phase2_round3", 1>>, <<"phase2_round_out", 0>>, <<"phase2_round_out", 1>>,
      <<"assert", 0>>, <<"start_phase3", 0>>, <<"start_phase3", 1>>,
      <<"phase3_round1", 0>>, <<"phase3_round1", 1>>, <<"phase3_round2", 0>>,
      <<"phase3_round2", 1>>, <<"phase3_round3", 0>>, <<"phase3_round3", 1>>,
      <<"phase3_round_out", 0>>, <<"phase3_round_out", 1>>, <<"assert", 0>>,
      <<"start_phase4", 0>>, <<"start_phase4", 1>>, <<"message", 0>>, <<"phase4_sign", 0>>,
      <<"phase4_sign", 1>>, <<"phase4_verify", 0>>, <<"phase4_verify", 1>>, <<"assert", 0>> >>

SimAt(method, p) ==
    sim_pc \in 1 .. Len(Script) /\ Script[sim_pc] = <<method, p>>

\* the last statement main executed was this call, and it returned
SimReturned(method, p) ==
    sim_pc > 1 /\ Script[sim_pc - 1] = <<method, p>>

\* the last statement main executed was this call (it returned or raised)
SimCalled(method, p) ==
    \/ SimReturned(method, p)
    \/ sim_pc < 0 /\ Script[0 - sim_pc] = <<method, p>>

\* the call returns into the local variable slot, or its exception ends main
SimReturn(p, res, slot) ==
    /\ party' = [party EXCEPT ![p] = res.self]
    /\ ret' = res.out
    /\ sim_pc' = IF res.out.err = "ok" THEN sim_pc + 1 ELSE 0 - sim_pc
    /\ sim_local' = IF res.out.err = "ok" /\ slot # "none"
                    THEN [sim_local EXCEPT ![slot][p] = res.out.val]
                    ELSE sim_local
    /\ UNCHANGED srv_vars
    /\ UNCHANGED <<zkp, lib>>

sim_start_phase1 ==
    \E p \in Parties : SimAt("start_phase1", p) /\
        \E xi \in ScalarDraws, rid \in RidDraws, alphai \in AlphaDraws :
            SimReturn(p, Party_start_phase1(party[p], xi, rid, alphai), "none")

sim_phase1_round1 ==
    \E p \in Parties : SimAt("phase1_round1", p) /\
        SimReturn(p, Party_phase1_round1(party[p]), "r1")

sim_phase1_round2 ==
    \E p \in Parties : SimAt("phase1_round2", p) /\
        SimReturn(p, Party_phase1_round2(party[p], sim_local.r1[Other(p)]), "r2")

sim_phase1_round3 ==
    \E p \in Parties : SimAt("phase1_round3", p) /\
        \E alphaA \in AlphaDraws :
            SimReturn(p, Party_phase1_round3(party[p], sim_local.r2[Other(p)], alphaA), "r3")

sim_phase1_round_out ==
    \E p \in Parties : SimAt("phase1_round_out", p) /\
        SimReturn(p, Party_phase1_round_out(party[p], sim_local.r3[Other(p)]), "out")

sim_start_phase2 ==
    \E p \in Parties : SimAt("start_phase2", p) /\
        \E kp \in generate_key_pair(ModulusBitLen) :
            \E lamd \in 2 .. Min(1 + MaxAuxRand, kp.priv.phi_n - 1),
               r \in 2 .. Min(1 + MaxRingRand, kp.pub.n - 1),
               rhoi \in 1 .. Min(MaxAuxRand, kp.priv.n - 1) :
                SimReturn(p, Party_start_phase2(party[p], kp, lamd, r, rhoi), "none")

sim_phase2_round1 ==
    \E p \in Parties : SimAt("phase2_round1", p) /\
        SimReturn(p, Party_phase2_round1(party[p]), "r1")

sim_phase2_round2 ==
    \E p \in Parties : SimAt("phase2_round2", p) /\
        SimReturn(p, Party_phase2_round2(party[p], sim_local.r1[Other(p)]), "r2")

sim_phase2_round3 ==
    \E p \in Parties : SimAt("phase2_round3", p) /\
        \E acc \in BOOLEAN :
            SimReturn(p, Party_phase2_round3(party[p], sim_local.r2[Other(p)], acc), "r3")

sim_phase2_round_out ==
    \E p \in Parties : SimAt("phase2_round_out", p) /\
        \E accMod \in BOOLEAN, accFac \in BOOLEAN :
            SimReturn(p, Party_phase2_round_out(party[p], sim_local.r3[Other(p)],
                                                accMod, accFac), "out")

sim_start_phase3 ==
    \E p \in Parties : SimAt("start_phase3", p) /\
        \E k_i \in ScalarDraws, gamma_i \in NonceDraws :
            \E rho_i \in EncRandDraws(party[p].aux_data.paillier_pub_i.n),
               nu_i \in EncRandDraws(party[p].aux_data.paillier_pub_i.n) :
                SimReturn(p, Party_start_phase3(party[p], k_i, gamma_i, rho_i, nu_i), "none")

sim_phase3_round1 ==
    \E p \in Parties : SimAt("phase3_round1", p) /\
        SimReturn(p, Party_phase3_round1(party[p]), "r1")

sim_phase3_round2 ==
    \E p \in Parties : SimAt("phase3_round2", p) /\
        \E acc \in BOOLEAN :
            \E rnd \in EncRandDraws(party[p].aux_data.paillier_pub_j.n)
                       \X EncRandDraws(party[p].aux_data.paillier_pub_i.n)
                       \X EncRandDraws(party[p].aux_data.paillier_pub_j.n)
                       \X EncRandDraws(party[p].aux_data.paillier_pub_i.n) :
                SimReturn(p, Party_phase3_round2(party[p], sim_local.r1[Other(p)], acc, rnd),
                          "r2")

sim_phase3_round3 ==
    \E p \in Parties : SimAt("phase3_round3", p) /\
        \E acc \in BOOLEAN \X BOOLEAN \X BOOLEAN :
            SimReturn(p, Party_phase3_round3(party[p], sim_local.r2[Other(p)], acc), "r3")

sim_phase3_round_out ==
    \E p \in Parties : SimAt("phase3_round_out", p) /\
        \E acc \in BOOLEAN :
            SimReturn(p, Party_phase3_round_out(party[p], sim_local.r3[Other(p)], acc), "out")

sim_start_phase4 ==
    \E p \in Parties : SimAt("start_phase4", p) /\
        SimReturn(p, Party_start_phase4(party[p]), "none")

\* message = b"..." (simulate.py line 107), for any message
sim_message ==
    /\ SimAt("message", 0)
    /\ \E m \in Messages : sim_local' = [sim_local EXCEPT !.message = m]
    /\ sim_pc' = sim_pc + 1
    /\ UNCHANGED <<party, ret>>
    /\ UNCHANGED srv_vars
    /\ UNCHANGED <<zkp, lib>>

sim_phase4_sign ==
    \E p \in Parties : SimAt("phase4_sign", p) /\
        SimReturn(p, Party_phase4_sign(party[p], sim_local.message), "sigma")

sim_phase4_verify ==
    \E p \in Parties : SimAt("phase4_verify", p) /\
        SimReturn(p, Party_phase4_verify(party[p], sim_local.message,
                                         sim_local.sigma[Other(p)]), "is_valid")

\* the condition asserted after the phase that ends just before position pc
SimAssertion(pc) ==
    IF Script[pc - 1][1] = "phase1_round_out"
    THEN /\ sim_local.out[0].X = sim_local.out[1].X
         /\ party[0].keygen_data.X = party[1].keygen_data.X
    ELSE IF Script[pc - 1][1] = "phase2_round_out"
    THEN /\ sim_local.out[0].n = party[1].aux_data.paillier_pub_i.n
         /\ sim_local.out[1].n = party[0].aux_data.paillier_pub_i.n
    ELSE IF Script[pc - 1][1] = "phase3_round_out"
    THEN /\ sim_local.out[0].R = sim_local.out[1].R
         /\ party[0].presig_data.R = sim_local.out[0].R
    ELSE /\ sim_local.is_valid[0] = TRUE
         /\ sim_local.is_valid[1] = TRUE

\* the assert statements of simulate.main
sim_assert ==
    /\ SimAt("assert", 0)
    /\ ret' = IF SimAssertion(sim_pc) THEN Returned(NoneVal) ELSE Raised("AssertionError")
    /\ sim_pc' = IF SimAssertion(sim_pc) THEN sim_pc + 1 ELSE 0 - sim_pc
    /\ UNCHANGED <<party, sim_local>>
    /\ UNCHANGED srv_vars
    /\ UNCHANGED <<zkp, lib>>

\* ------------------------------------------------------------------------
\* The Party 1 server (main.py).  A command is the value json.loads gives
\* for one line of stdin.
\* ------------------------------------------------------------------------
\* JSON values a client can put under "phase": an integer, true/false, a
\* float with an integral value, or nothing (None)
JsonInt(n) == [t |-> "int", v |-> n]
JsonBool(b) == [t |-> "bool", v |-> IF b THEN 1 ELSE 0]
JsonFloat(n) == [t |-> "float", v |-> n]
JsonNull == [t |-> "null", v |-> 0]

\* Python's phase == n for a JSON value and an int: True == 1 and 4.0 == 4
py_eq(j, n) == j.t # "null" /\ j.v = n

\* whether f"...{phase}" names a method of Party: str(True) is "True", str(4.0) is "4.0"
py_method_exists(j) == j.t = "int" /\ j.v \in 1 .. 4

\* serialize_point(point) (coordinates as hex strings, which int(., 16) reads back)
serialize_point(point) ==
    IF point.inf THEN [is_infinity |-> TRUE, x |-> 0, y |-> 0]
    ELSE [is_infinity |-> FALSE, x |-> point.x, y |-> point.y]

\* deserialize_point(data)
deserialize_point(data) ==
    IF data.is_infinity THEN Infinity ELSE Point(data.x, data.y)

\* the fields of the message dataclasses that hold a Point
PointFields == {"X", "A", "Gamma", "vdelta", "R"}

\* ProtocolMessage.to_dict()
to_dict(msg) ==
    [f \in DOMAIN msg |-> IF f \in PointFields THEN serialize_point(msg[f]) ELSE msg[f]]

\* ProtocolMessage.from_dict(data) for the dataclass with these fields: keys
\* of data that are no field are ignored, a missing field fails cls(**kwargs)
from_dict(fields, data) ==
    IF ~(fields \subseteq DOMAIN data) THEN Raised("TypeError")
    ELSE Returned([f \in fields |->
                      IF f \in PointFields THEN deserialize_point(data[f]) ELSE data[f]])

\* REQUEST_DTO_MAP: the fields of the dataclass a (phase, action) deserializes
REQUEST_DTO_MAP(phase, action) ==
    CASE phase = 1 /\ action = "round2" -> {"id", "V"}
      [] phase = 1 /\ action = "round3" -> {"rid", "X", "A"}
      [] phase = 1 /\ action = "round_out" -> {"schX", "schA", "psi"}
      [] phase = 2 /\ action = "round2" -> {"id", "V"}
      [] phase = 2 /\ action = "round3" -> {"n", "s", "t", "prm", "rho"}
      [] phase = 2 /\ action = "round_out" -> {"mod", "fac"}
      [] phase = 3 /\ action = "round2" -> {"K_ct", "G_ct", "proofenc"}
      [] phase = 3 /\ action = "round3" ->
             {"Gamma", "D", "_D", "F", "_F", "psi_affg_gamma", "psi_affg_xi",
              "psi_logstar_gamma"}
      [] phase = 3 /\ action = "round_out" -> {"delta", "vdelta", "psi"}
      [] phase = 4 /\ action = "verify" -> {"sigma"}
      [] OTHER -> {}

\* getattr(self.party, f"start_phase{phase}")() and
\* getattr(self.party, f"phase{phase}_{action}")(*args): the Party method a
\* (phase, action) names, applied to the deserialized argument; d holds the
\* random draws the method makes
Party_method(pt, phase, action, arg, d) ==
    CASE phase = 1 /\ action = "start_phase" -> Party_start_phase1(pt, d.xi, d.rid, d.alphai)
      [] phase = 1 /\ action = "round1" -> Party_phase1_round1(pt)
      [] phase = 1 /\ action = "round2" -> Party_phase1_round2(pt, arg)
      [] phase = 1 /\ action = "round3" -> Party_phase1_round3(pt, arg, d.alphaA)
      [] phase = 1 /\ action = "round_out" -> Party_phase1_round_out(pt, arg)
      [] phase = 2 /\ action = "start_phase" ->
             Party_start_phase2(pt, d.kp, d.lamd, d.r, d.rhoi)
      [] phase = 2 /\ action = "round1" -> Party_phase2_round1(pt)
      [] phase = 2 /\ action = "round2" -> Party_phase2_round2(pt, arg)
      [] phase = 2 /\ action = "round3" -> Party_phase2_round3(pt, arg, d.acc[1])
      [] phase = 2 /\ action = "round_out" ->
             Party_phase2_round_out(pt, arg, d.acc[1], d.acc[2])
      [] phase = 3 /\ action = "start_phase" ->
             Party_start_phase3(pt, d.k_i, d.gamma_i, d.rho_i, d.nu_i)
      [] phase = 3 /\ action = "round1" -> Party_phase3_round1(pt)
      [] phase = 3 /\ action = "round2" -> Party_phase3_round2(pt, arg, d.acc[1], d.rnd)
      [] phase = 3 /\ action = "round3" -> Party_phase3_round3(pt, arg, d.acc)
      [] phase = 3 /\ action = "round_out" -> Party_phase3_round_out(pt, arg, d.acc[1])
      [] phase = 4 /\ action = "start_phase" -> Party_start_phase4(pt)
      [] OTHER -> [self |-> pt, out |-> Raised("AttributeError")]

\* a faulty step table that expects another sign after a sign (sensitivity of C3)
next_expected_mut(current_phase, expected_action, phase, action) ==
    IF phase \in {1, 2, 3} THEN
        CASE action = "start_phase" -> <<current_phase, "round1">>
          [] action = "round1" -> <<current_phase, "round2">>
          [] action = "round2" -> <<current_phase, "round3">>
          [] action = "round3" -> <<current_phase, "round_out">>
          [] action = "round_out" -> <<phase + 1, "start_phase">>
          [] OTHER -> <<current_phase, expected_action>>
    ELSE IF phase = 4 THEN
        CASE action = "start_phase" -> <<current_phase, "sign">>
          [] action = "sign" -> <<current_phase, "sign">>
          [] OTHER -> <<current_phase, expected_action>>
    ELSE <<current_phase, expected_action>>

\* lines 155-197 of process_command: the step expected after (phase, action)
next_expected(current_phase, expected_action, phase, action) ==
    IF phase \in {1, 2, 3} THEN
        CASE action = "start_phase" -> <<current_phase, "round1">>
          [] action = "round1" -> <<current_phase, "round2">>
          [] action = "round2" -> <<current_phase, "round3">>
          [] action = "round3" -> <<current_phase, "round_out">>
          [] action = "round_out" -> <<phase + 1, "start_phase">>
          [] OTHER -> <<current_phase, expected_action>>
    ELSE IF phase = 4 THEN
        CASE action = "start_phase" -> <<current_phase, "sign">>
          [] action = "sign" -> <<current_phase, "verify">>
          [] action = "verify" -> <<3, "start_phase">>
          [] OTHER -> <<current_phase, expected_action>>
    ELSE <<current_phase, expected_action>>

\* data.get("message", "") without the key: bytes.fromhex("") is the empty message
EmptyMessage == 0

\* Party1Client.__init__() (the attributes besides party)
Party1Client_init ==
    [current_phase |-> 1, expected_action |-> "start_phase",
     message_cache |-> NoneInt, signing_completed |-> FALSE]

\* the response dictionaries of process_command
Response(status, message, action, phase, result) ==
    [status |-> status, message |-> message, action |-> action, phase |-> phase,
     result |-> result]

\* lines 106-113: the flow violation response
FlowViolation(cl, phase, action) ==
    Response("error", "Protocol flow violation.", "", JsonNull,
             [expected_phase |-> cl.current_phase, expected_action |-> cl.expected_action,
              received_phase |-> phase, received_action |-> action])

\* lines 201-212: the response to an exception of this type
ErrorResponse(err) ==
    IF err = "VerificationError"
    THEN Response("error", "Protocol verification failed", "", JsonNull,
                  [type |-> "VerificationError"])
    ELSE Response("error", "An unexpected server error occurred.", "", JsonNull,
                  [type |-> "traceback"])

\* handle_guess_key without the test of signing_completed
handle_guess_key_mut(cl, pt, data) ==
    IF "guess" \notin DOMAIN data
    THEN [correct |-> FALSE, message |-> "No 'guess' key provided in data."]
    ELSE IF Party_get_secret_key_xi(pt) = NoneInt
    THEN [correct |-> FALSE, message |-> "Party1's key (phase 1) has not been generated yet."]
    ELSE IF data.guess = Party_get_secret_key_xi(pt)
    THEN [correct |-> TRUE, message |-> "flag"]
    ELSE [correct |-> FALSE, message |-> "Incorrect guess."]

\* Party1Client.handle_guess_key(data)
handle_guess_key(cl, pt, data) ==
    IF ~cl.signing_completed
    THEN [correct |-> FALSE, message |-> "You must complete at least one successful signing round before guessing."]
    ELSE IF "guess" \notin DOMAIN data
    THEN [correct |-> FALSE, message |-> "No 'guess' key provided in data."]
    ELSE IF Party_get_secret_key_xi(pt) = NoneInt
    THEN [correct |-> FALSE, message |-> "Party1's key (phase 1) has not been generated yet."]
    ELSE IF data.guess = Party_get_secret_key_xi(pt)
    THEN [correct |-> TRUE, message |-> "flag"]
    ELSE [correct |-> FALSE, message |-> "Incorrect guess."]

\* lines 117-119: the payload of a start_phase whose Party call gave res
started(cl, res) ==
    [cl |-> cl, party |-> res.self,
     out |-> IF res.out.err = "ok" THEN Returned([message |-> "Started phase"])
             ELSE res.out]

\* lines 149-151: the payload of a Party call that gave res, serialized
serialized(cl, res) ==
    [cl |-> cl, party |-> res.self,
     out |-> IF res.out.err = "ok" THEN Returned(to_dict(res.out.val)) ELSE res.out]

\* lines 131-136: after phase4_verify gave res
verified(cl, res) ==
    IF res.out.err # "ok" THEN [cl |-> cl, party |-> res.self, out |-> res.out]
    ELSE [cl |-> [cl EXCEPT !.message_cache = NoneInt,
                            !.signing_completed = (@ \/ res.out.val = TRUE)],
          party |-> res.self, out |-> Returned([verify |-> res.out.val])]

\* lines 140-147: the round method of the party on the deserialized data
round_call(cl, pt, phase, action, arg, d) ==
    IF arg.err # "ok" THEN [cl |-> cl, party |-> pt, out |-> arg]
    ELSE serialized(cl, Party_method(pt, phase.v, action, arg.val, d))

\* lines 115-153 of process_command: the routed call.  Gives the client
\* attributes and the party after the call and the call's outcome, whose
\* value is the result put in the response.
route_command(cl, pt, phase, action, data, d) ==
    IF action = "start_phase" THEN
        IF ~py_method_exists(phase)
        THEN [cl |-> cl, party |-> pt, out |-> Raised("AttributeError")]
        ELSE started(cl, Party_method(pt, phase.v, action, NoneVal, d))
    ELSE IF py_eq(phase, 4) /\ action = "sign" THEN
        IF "message" \in DOMAIN data
        THEN serialized([cl EXCEPT !.message_cache = data.message],
                        Party_phase4_sign(pt, data.message))
        ELSE serialized([cl EXCEPT !.message_cache = EmptyMessage],
                        Party_phase4_sign(pt, EmptyMessage))
    ELSE IF py_eq(phase, 4) /\ action = "verify" THEN
        IF from_dict({"sigma"}, data).err # "ok"
        THEN [cl |-> cl, party |-> pt, out |-> from_dict({"sigma"}, data)]
        ELSE verified(cl, Party_phase4_verify(pt, cl.message_cache,
                                              from_dict({"sigma"}, data).val))
    ELSE
        IF ~py_method_exists(phase)
        THEN [cl |-> cl, party |-> pt, out |-> Raised("AttributeError")]
        ELSE round_call(cl, pt, phase, action,
                        IF REQUEST_DTO_MAP(phase.v, action) = {} THEN Returned(NoneVal)
                        ELSE from_dict(REQUEST_DTO_MAP(phase.v, action), data), d)

\* lines 155-212: after the routed call gave r, the expected step advances
\* and the response is built, or the exception is answered
routed(cl, command, r, step) ==
    IF r.out.err # "ok"
    THEN [cl |-> r.cl, party |-> r.party, response |-> ErrorResponse(r.out.err)]
    ELSE [cl |-> [r.cl EXCEPT !.current_phase = step[1], !.expected_action = step[2]],
          party |-> r.party,
          response |-> Response("ok", "", command.action, command.phase, r.out.val)]

\* Party1Client.process_command(command_json): the client attributes cl and
\* the party pt after the command, and the response
process_command(cl, pt, command, d) ==
    IF command.malformed
    THEN [cl |-> cl, party |-> pt, response |-> ErrorResponse("JSONDecodeError")]
    ELSE IF command.action = "guess_key"
    THEN [cl |-> cl, party |-> pt,
          response |-> Response("ok", "", "guess_key", JsonNull,
                                handle_guess_key(cl, pt, command.data))]
    ELSE IF ~py_eq(command.phase, cl.current_phase) \/ command.action # cl.expected_action
    THEN [cl |-> cl, party |-> pt,
          response |-> FlowViolation(cl, command.phase, command.action)]
    ELSE routed(cl, command,
                route_command(cl, pt, command.phase, command.action, command.data, d),
                next_expected(cl.current_phase, cl.expected_action,
                              command.phase.v, command.action))

\* a faulty loop that goes on after an error response (sensitivity of C6)
main_continues_mut(resp) == TRUE

\* main(): the loop goes on after this response
main_continues(resp) == resp.status = "ok"

\* ------------------------------------------------------------------------
\* The server loop of main() and its client.  The client is exp1.py: it runs
\* its own Party(0), and before each command it sends it makes the same
\* call on its own party.  Besides the command of its script it can send
\* any other line.
\* ------------------------------------------------------------------------
\* the client's own draws are the least MaxClientDraw of each kind
MaxClientDraw == 1
\* the server's draws are the least MaxServerDraw of each kind
MaxServerDraw == 2
\* presigning and signing runs the client script goes through
MaxSignatures == 2

\* the random draws of one Party method, by the name the method gives them
BaseDraws ==
    [xi |-> 1, rid |-> 0, alphai |-> 1, alphaA |-> 1, kp |-> NoneVal, lamd |-> 2,
     r |-> 2, rhoi |-> 1, k_i |-> 1, gamma_i |-> 1, rho_i |-> 1, nu_i |-> 1,
     rnd |-> <<1, 1, 1, 1>>, acc |-> <<TRUE, TRUE, TRUE>>]

\* the draws the method for (phase, action) of this party can make
DrawsFor(ph, action, pt) ==
    CASE ph = 1 /\ action = "start_phase" ->
             {[BaseDraws EXCEPT !.xi = t[1], !.rid = t[2], !.alphai = t[3]] :
                 t \in ScalarDraws \X RidDraws \X AlphaDraws}
      [] ph = 1 /\ action = "round3" ->
             {[BaseDraws EXCEPT !.alphaA = a] : a \in AlphaDraws}
      [] ph = 2 /\ action = "start_phase" ->
             UNION {{[BaseDraws EXCEPT !.kp = kp, !.lamd = t[1], !.r = t[2], !.rhoi = t[3]] :
                        t \in (2 .. Min(1 + MaxAuxRand, kp.priv.phi_n - 1))
                              \X (2 .. Min(1 + MaxRingRand, kp.pub.n - 1))
                              \X (1 .. Min(MaxAuxRand, kp.priv.n - 1))} :
                    kp \in generate_key_pair(ModulusBitLen)}
      [] ph = 2 /\ action \in {"round3", "round_out"} ->
             {[BaseDraws EXCEPT !.acc = <<t[1], t[2], TRUE>>] : t \in BOOLEAN \X BOOLEAN}
      [] ph = 3 /\ action = "start_phase" ->
             {[BaseDraws EXCEPT !.k_i = t[1], !.gamma_i = t[2], !.rho_i = t[3],
                                !.nu_i = t[4]] :
                 t \in ScalarDraws \X NonceDraws
                       \X EncRandDraws(pt.aux_data.paillier_pub_i.n)
                       \X EncRandDraws(pt.aux_data.paillier_pub_i.n)}
      [] ph = 3 /\ action = "round2" ->
             {[BaseDraws EXCEPT !.acc = <<t[1], TRUE, TRUE>>, !.rnd = t[2]] :
                 t \in BOOLEAN \X (EncRandDraws(pt.aux_data.paillier_pub_j.n)
                                   \X EncRandDraws(pt.aux_data.paillier_pub_i.n)
                                   \X EncRandDraws(pt.aux_data.paillier_pub_j.n)
                                   \X EncRandDraws(pt.aux_data.paillier_pub_i.n))}
      [] ph = 3 /\ action = "round3" ->
             {[BaseDraws EXCEPT !.acc = t] : t \in BOOLEAN \X BOOLEAN \X BOOLEAN}
      [] ph = 3 /\ action = "round_out" ->
             {[BaseDraws EXCEPT !.acc = <<a, TRUE, TRUE>>] : a \in BOOLEAN}
      [] OTHER -> {BaseDraws}

\* the draws among the least max of each kind
WithinDraw(d, ph, action, max) ==
    /\ d.xi <= max /\ d.rid < max /\ d.alphai <= max /\ d.alphaA <= max
    /\ d.k_i <= max /\ d.gamma_i <= max /\ d.rho_i <= max /\ d.nu_i <= max
    /\ d.lamd <= 1 + max /\ d.r <= 1 + max /\ d.rhoi <= max
    /\ \A i \in 1 .. 4 : d.rnd[i] <= max
    /\ (ph = 2 /\ action = "start_phase") =>
           Cardinality({kp \in generate_key_pair(ModulusBitLen) :
                           kp.pub.n < d.kp.pub.n \/
                           (kp.pub.n = d.kp.pub.n /\ kp.p < d.kp.p)}) < max

\* the draws of the client's own party, whose proofs checks accept
ClientDraws(ph, action, pt) ==
    {d \in DrawsFor(ph, action, pt) :
        d.acc = <<TRUE, TRUE, TRUE>> /\ WithinDraw(d, ph, action, MaxClientDraw)}

\* the statements of exp1.py for one phase: each call on p0 ("local")
\* is followed by the same command to the server ("send")
ClientRounds(ph, actions) ==
    [i \in 1 .. 2 * Len(actions) |->
        <<IF i % 2 = 1 THEN "local" ELSE "send", ph, actions[(i + 1) \div 2]>>]

RoundActions == <<"start_phase", "round1", "round2", "round3", "round_out">>
SigningActions == <<"start_phase", "sign", "verify">>

RECURSIVE ClientSignatures(_)
ClientSignatures(k) ==
    IF k = 0 THEN <<>>
    ELSE ClientRounds(3, RoundActions) \o ClientRounds(4, SigningActions)
         \o ClientSignatures(k - 1)

\* the statements of exp1.py in order: <<kind, phase, action>>
ClientScript ==
    ClientRounds(1, RoundActions) \o ClientRounds(2, RoundActions)
    \o ClientSignatures(MaxSignatures)

\* the local variable a call's result is kept in
SlotOf(action) ==
    CASE action = "round1" -> "r1" [] action = "round2" -> "r2"
      [] action = "round3" -> "r3" [] action = "round_out" -> "out"
      [] action = "sign" -> "sigma" [] action = "verify" -> "is_valid"
      [] OTHER -> "none"

\* the local variable holding the counterparty message a round consumes
ArgSlot(action) ==
    CASE action = "round2" -> "r1" [] action = "round3" -> "r2"
      [] action = "round_out" -> "r3" [] OTHER -> "none"

\* exp1.py lines 152-161: the share of the server computed from the MtA
\* ciphertext _D of its round-2 message, the client's nonce share and ssid
exp1_x1(ssid, paillier_priv_0, D, k_0) ==
    LET beta      == q5 - rejection_sample(q5, ssid)
        _alpha_ij == decrypt(paillier_priv_0, D)
        sum       == (beta + _alpha_ij) % ec_n
    IN  (sum * invert(k_0, ec_n)) % ec_n

\* a command: the value of json.loads(command_json), or a line json.loads rejects
Command(phase, action, data) ==
    [malformed |-> FALSE, phase |-> phase, action |-> action, data |-> data]
MalformedLine == [malformed |-> TRUE, phase |-> JsonNull, action |-> "", data |-> <<>>]

\* the values a line can carry under "phase" and "action"
PhaseValues ==
    {JsonInt(n) : n \in 1 .. 4} \cup {JsonBool(TRUE), JsonFloat(4), JsonNull}
ActionValues == {"start_phase", "round1", "round2", "round3", "round_out", "sign", "verify"}

\* the "data" exp1.py sends with an action: its own last message, serialized
HonestData(action) ==
    CASE action = "round2" -> to_dict(sim_local.r1[0])
      [] action = "round3" -> to_dict(sim_local.r2[0])
      [] action = "round_out" -> to_dict(sim_local.r3[0])
      [] action = "verify" -> to_dict(sim_local.sigma[0])
      [] action = "sign" -> [message |-> sim_local.message]
      [] OTHER -> <<>>

\* the same data with one value changed
Tamper(data) ==
    CASE "sigma" \in DOMAIN data -> [data EXCEPT !.sigma = (@ + 1) % ec_n]
      [] "V" \in DOMAIN data -> [data EXCEPT !.V = (@ + 1) % HashMod]
      [] "rid" \in DOMAIN data -> [data EXCEPT !.rid = BitXor(@, 1)]
      [] "delta" \in DOMAIN data -> [data EXCEPT !.delta = (@ + 1) % ec_n]
      [] OTHER -> data

\* the data a client sends with (phase, action): what exp1.py sends, and for
\* the command of the script also changed data, another message, or none
DataFor(phase, action) ==
    IF cli_pc \in 1 .. Len(ClientScript)
       /\ phase = JsonInt(ClientScript[cli_pc][2]) /\ action = ClientScript[cli_pc][3]
    THEN IF action = "sign" THEN {[message |-> m] : m \in Messages} \cup {<<>>}
         ELSE {HonestData(action), Tamper(HonestData(action)), <<>>}
    ELSE {HonestData(action)}

\* the guess exp1.py sends once it holds k_0 and the server's round-2 message
GuessData ==
    IF sim_local.k_0 = NoneInt THEN <<>>
    ELSE [guess |-> exp1_x1(party[0].keygen_data.ssid, sim_local.paillier_priv_0,
                            sim_local.r2[1]._D, sim_local.k_0)]

\* another guess than the one exp1.py computes
OtherGuess ==
    IF GuessData = <<>> THEN <<>> ELSE [guess |-> (GuessData.guess + 1) % ec_n]

\* the lines the client can send
ClientCommands ==
    UNION {{Command(pa[1], pa[2], dt) : dt \in DataFor(pa[1], pa[2])} :
              pa \in PhaseValues \X ActionValues}
    \cup {Command(JsonNull, "guess_key", g) : g \in {GuessData, OtherGuess}}
    \cup {MalformedLine}

\* the draws of the Party method this command reaches, if it reaches one
ServerDraws(command) ==
    IF /\ ~command.malformed
       /\ py_eq(command.phase, client.current_phase)
       /\ command.action = client.expected_action
       /\ py_method_exists(command.phase)
    THEN {d \in DrawsFor(client.current_phase, client.expected_action, party[1]) :
             WithinDraw(d, client.current_phase, client.expected_action, MaxServerDraw)}
    ELSE {BaseDraws}

\* exp1.py: the next call on its own party p0; an exception ends the script
cli_local ==
    /\ cli_pc \in 1 .. Len(ClientScript)
    /\ ClientScript[cli_pc][1] = "local"
    /\ LET ph     == ClientScript[cli_pc][2]
           action == ClientScript[cli_pc][3]
       IN  \E m \in IF action = "sign" THEN {mm \in Messages : mm <= MaxClientDraw}
                    ELSE {sim_local.message} :
           \E d \in ClientDraws(ph, action, party[0]) :
           \E res \in {IF action = "sign" THEN Party_phase4_sign(party[0], m)
                       ELSE IF action = "verify"
                       THEN Party_phase4_verify(party[0], m, sim_local.sigma[1])
                       ELSE Party_method(party[0], ph, action,
                                         IF ArgSlot(action) = "none" THEN NoneVal
                                         ELSE sim_local[ArgSlot(action)][1], d)} :
             LET loc1 == [sim_local EXCEPT !.message = m]
                 loc2 == IF ph = 3 /\ action = "round3"
                         THEN [loc1 EXCEPT
                                  !.paillier_priv_0 = party[0].presigning_protocol.paillier_priv_i,
                                  !.k_0 = party[0].presigning_protocol.k_i]
                         ELSE loc1
             IN  /\ party' = [party EXCEPT ![0] = res.self]
                 /\ ret' = res.out
                 /\ cli_pc' = IF res.out.err = "ok" THEN cli_pc + 1 ELSE 0 - cli_pc
                 /\ sim_local' = IF res.out.err = "ok" /\ SlotOf(action) # "none"
                                 THEN [loc2 EXCEPT ![SlotOf(action)][0] = res.out.val]
                                 ELSE loc2
    /\ UNCHANGED <<sim_pc, client, line, response, running, presig_signs, since_sign>>
    /\ UNCHANGED <<zkp, lib>>

\* main(): one turn of the loop: read a line, process_command, print the
\* response, and return unless its status is "ok".  The client reads the
\* result of a command it goes on from.
srv_process_command ==
    /\ running
    /\ cli_pc > 0
    /\ IF cli_pc > Len(ClientScript) THEN TRUE ELSE ClientScript[cli_pc][1] = "send"
    /\ \E command \in ClientCommands : \E d \in ServerDraws(command) :
       \E o \in {process_command(client, party[1], command, d)} :
         LET ok       == o.response.status = "ok"
             accepted == ok /\ command.action # "guess_key"
             scripted == /\ cli_pc <= Len(ClientScript)
                         /\ command.phase = JsonInt(ClientScript[cli_pc][2])
                         /\ command.action = ClientScript[cli_pc][3]
             slot     == SlotOf(command.action)
         IN  /\ party' = [party EXCEPT ![1] = o.party]
             /\ client' = o.cl
             /\ line' = command
             /\ response' = o.response
             /\ running' = main_continues(o.response)
             /\ cli_pc' = IF ok /\ scripted THEN cli_pc + 1 ELSE cli_pc
             /\ sim_local' =
                    IF accepted /\ slot \notin {"none", "is_valid"}
                    THEN [sim_local EXCEPT ![slot][1] =
                             from_dict(DOMAIN o.response.result, o.response.result).val]
                    ELSE sim_local
             /\ presig_signs' =
                    IF accepted /\ command.action = "sign" THEN presig_signs + 1
                    ELSE IF accepted /\ py_eq(command.phase, 3)
                            /\ command.action = "round_out" THEN 0
                    ELSE presig_signs
             /\ since_sign' =
                    IF accepted /\ command.action = "sign"
                    THEN << <<command.phase.v, command.action>> >>
                    ELSE IF accepted /\ since_sign # <<>>
                    THEN Append(since_sign, <<command.phase.v, command.action>>)
                    ELSE since_sign
    /\ UNCHANGED <<sim_pc, ret>>
    /\ UNCHANGED <<zkp, lib>>

\* ------------------------------------------------------------------------
\* Calls on the proof classes.  A prover calls new_proof on inputs of its
\* choice; the proof object, or one a counterparty changed, is serialized,
\* deserialized or verified.  zkp records the last call: the inputs of
\* new_proof (stmt, wit), the proof it returned (proof), the proof and the
\* statement handed to the last call (given, gstmt), what was changed
\* (tamper), the serialized parts and the outcome.
\* ------------------------------------------------------------------------
NoCall ==
    [kind |-> "", call |-> "init", stmt |-> NoneVal, wit |-> NoneVal, proof |-> NoneVal,
     given |-> NoneVal, gstmt |-> NoneVal, tamper |-> "none", parts |-> NoneVal,
     out |-> Returned(NoneVal)]

\* no library function was called yet
NoLib == [fn |-> "init", key |-> NoneVal, args |-> NoneVal, out |-> Returned(NoneVal)]

\* the variables of simulate.py and main.py
prog_vars == <<party, sim_pc, sim_local, ret, client, line, response, running, cli_pc,
               presig_signs, since_sign>>

\* the state after new_proof of class kind was called on (stmt, wit)
Proved(kind, stmt, wit, res) ==
    [NoCall EXCEPT !.kind = kind, !.call = "new_proof", !.stmt = stmt, !.wit = wit,
                   !.proof = res.val, !.given = res.val, !.gstmt = stmt, !.out = res]

\* the session ids of the calls
ZkpSsids == RidDraws

\* a scalar argument: a value of [0, q) or None
ScalarOrNone == (0 .. ec_n - 1) \cup {NoneInt}

\* x * G, or None for a missing x
PointOf(x) == IF x = NoneInt THEN NoneVal ELSE scalar_base_mult(x)

\* the points of the curve
CurvePoints == {scalar_base_mult(k) : k \in 0 .. ec_n - 1}

\* a caller of ProofSch.new_proof(ssid, ec, X, x)
zkp_Sch_new_proof ==
    /\ zkp.call = "init"
    /\ \E ssid \in ZkpSsids, x \in ScalarOrNone, alpha \in AlphaDraws :
          zkp' = Proved("Sch", [ssid |-> ssid, X |-> PointOf(x)],
                        [x |-> x, alpha |-> alpha, via |-> "new_proof"],
                        Sch_new_proof(ssid, PointOf(x), x, alpha))
    /\ UNCHANGED <<prog_vars, lib>>

\* a caller of ProofSch.new_proof_with_alpha(ssid, ec, X, A, alpha, x)
zkp_Sch_new_proof_with_alpha ==
    /\ zkp.call = "init"
    /\ \E ssid \in ZkpSsids, x \in ScalarOrNone, alpha \in ScalarOrNone :
          zkp' = Proved("Sch", [ssid |-> ssid, X |-> PointOf(x)],
                        [x |-> x, alpha |-> alpha, via |-> "new_proof_with_alpha"],
                        Sch_new_proof_with_alpha(ssid, PointOf(x), PointOf(alpha), alpha, x))
    /\ UNCHANGED <<prog_vars, lib>>

\* the proofs a counterparty can hand over in place of a Schnorr proof pf
Sch_given(pf) ==
    {<<"none", pf>>}
    \cup {<<"Z", [pf EXCEPT !.Z = z]>> : z \in (0 .. 2 * ec_n - 1) \ {pf.Z}}
    \cup {<<"A", [pf EXCEPT !.A = P]>> : P \in CurvePoints \ {pf.A}}

\* the statements a verifier can hold in place of the prover's st
Sch_gstmt(st) ==
    {<<"none", st>>, <<"ssid", [st EXCEPT !.ssid = -2]>>, <<"X", [st EXCEPT !.X = NoneVal]>>}

\* the arguments args of a call, and each with one argument zero or None
OneMissing(args) ==
    {args} \cup {[args EXCEPT ![f] = v] : f \in DOMAIN args, v \in {0, NoneInt}}

\* the two smallest key pairs generate_key_pair returns, the prover's and the verifier's
ZkpKeys == generate_key_pair(ModulusBitLen)
KeyA == CHOOSE kp \in ZkpKeys : kp.p < kp.q /\ \A k2 \in ZkpKeys : kp.pub.n <= k2.pub.n
KeyB == CHOOSE kp \in ZkpKeys \ {KeyA} :
            kp.p < kp.q /\ \A k2 \in ZkpKeys \ {KeyA} : k2.p < k2.q => kp.pub.n <= k2.pub.n

\* Ring-Pedersen parameters of a key pair as Aux.__init__ computes them from r and lamd
RingPedersen(kp, r, lamd) ==
    [N |-> kp.pub.n, t |-> powmod(r, 2, kp.pub.n),
     s |-> powmod(powmod(r, 2, kp.pub.n), lamd, kp.pub.n)]

\* the parameters the verifier published
RP == RingPedersen(KeyB, 2, 3)

\* the list [c] * Iterations with entry k replaced by d
Draws80(c, k, d) == [i \in 1 .. Iterations |-> IF i = k THEN d ELSE c]

\* the draws of the a_i in ProofPrm.new_proof that are checked
PrmDraws == {Draws80(1, 1, 1), Draws80(2, 1, 2), Draws80(1, 1, 0), Draws80(1, 17, 0),
             Draws80(1, Iterations, 0), Draws80(3, 2, 5)}

\* a caller of ProofPrm.new_proof(ssid, s, t, N, Phi, lam)
zkp_Prm_new_proof ==
    /\ zkp.call = "init"
    /\ \E ssid \in ZkpSsids, lamd \in 2 .. 3, a \in PrmDraws :
       \E args \in OneMissing([s |-> RingPedersen(KeyB, 2, lamd).s,
                               t |-> RingPedersen(KeyB, 2, lamd).t,
                               N |-> KeyB.pub.n, Phi |-> KeyB.priv.phi_n, lam |-> lamd]) :
          zkp' = Proved("Prm", [ssid |-> ssid, s |-> args.s, t |-> args.t, N |-> args.N],
                        [Phi |-> args.Phi, lam |-> args.lam, a |-> a],
                        Prm_new_proof(ssid, args.s, args.t, args.N, args.Phi, args.lam, a))
    /\ UNCHANGED <<prog_vars, lib>>

\* the draws of W in ProofMod.new_proof that are checked: the two smallest
ModDraws(N) ==
    IF N <= 0 \/ jacobi_raises(N) THEN {1}
    ELSE LET ws == sample_invertible_with_neg_jacobi(N)
         IN  {w \in ws : Cardinality({v \in ws : v < w}) < 2}

\* a caller of ProofMod.new_proof(ssid, N, P, Q)
zkp_Mod_new_proof ==
    /\ zkp.call = "init"
    /\ \E ssid \in ZkpSsids, kp \in {KeyA, KeyB} :
       \E args \in OneMissing([N |-> kp.pub.n, P |-> kp.p, Q |-> kp.q]) :
       \E W \in ModDraws(args.N) :
          zkp' = Proved("Mod", [ssid |-> ssid, N |-> args.N],
                        [P |-> args.P, Q |-> args.Q, W |-> W],
                        Mod_new_proof(ssid, args.N, args.P, args.Q, W))
    /\ UNCHANGED <<prog_vars, lib>>

\* the draws of ProofFac.new_proof that are checked
FacDraws ==
    {[alpha |-> a, beta |-> a, mu |-> m, nu |-> n, sigma |-> sg, x |-> a, y |-> a, r |-> a] :
        a \in 0 .. 1, m \in 0 .. 1, n \in 0 .. 1, sg \in {0, 100}}

\* a caller of ProofFac.new_proof(ssid, ec, N0, NCap, s, t, N0p, N0q)
zkp_Fac_new_proof ==
    /\ zkp.call = "init"
    /\ \E ssid \in ZkpSsids, rnd \in FacDraws :
       \E args \in OneMissing([N0 |-> KeyA.pub.n, NCap |-> RP.N, s |-> RP.s, t |-> RP.t,
                               N0p |-> KeyA.p, N0q |-> KeyA.q]) :
          zkp' = Proved("Fac", [ssid |-> ssid, N0 |-> args.N0, NCap |-> args.NCap,
                                s |-> args.s, t |-> args.t],
                        [N0p |-> args.N0p, N0q |-> args.N0q, rnd |-> rnd],
                        Fac_new_proof(ssid, args.N0, args.NCap, args.s, args.t,
                                      args.N0p, args.N0q, rnd))
    /\ UNCHANGED <<prog_vars, lib>>

\* PublicKey.encrypt_with_randomness(m, x) as the integer it returns
encrypt_int(pk, m, x) == ciphertext_int(encrypt_with_randomness(pk, m % pk.n, x))

\* a public key argument: the key, or None
KeyOrNone(pk) == {pk, NoneVal}

\* the draws alpha, mu, gamma, r of ProofEnc.new_proof and ProofLogstar.new_proof
\* that are checked: the ends of the range of alpha and a value inside
EncDraws ==
    {[alpha |-> a, mu |-> m, gamma |-> m, r |-> 1] : a \in {0, 1, ec_n ^ 3 - 1}, m \in 0 .. 1}

\* a caller of ProofEnc.new_proof(ssid, ec, pk, K, NCap, s, t, k, rho)
zkp_Enc_new_proof ==
    /\ zkp.call = "init"
    /\ \E ssid \in ZkpSsids, k \in ScalarDraws, rho \in EncRandDraws(KeyA.pub.n),
          rnd \in EncDraws, pk \in KeyOrNone(KeyA.pub) :
       \E args \in OneMissing([K |-> encrypt_int(KeyA.pub, k, rho), NCap |-> RP.N,
                               s |-> RP.s, t |-> RP.t, k |-> k, rho |-> rho]) :
          zkp' = Proved("Enc", [ssid |-> ssid, pk |-> pk, NCap |-> args.NCap, s |-> args.s,
                                t |-> args.t, K |-> args.K],
                        [k |-> args.k, rho |-> args.rho, rnd |-> rnd],
                        Enc_new_proof(ssid, pk, args.K, args.NCap, args.s, args.t, args.k,
                                      args.rho, rnd.alpha, rnd.mu, rnd.gamma, rnd.r))
    /\ UNCHANGED <<prog_vars, lib>>

\* a caller of ProofLogstar.new_proof(ssid, ec, pk, C, X, g, rho, x, NCap, s, t)
zkp_Logstar_new_proof ==
    /\ zkp.call = "init"
    /\ \E ssid \in ZkpSsids, x \in ScalarDraws, rho \in EncRandDraws(KeyA.pub.n),
          rnd \in EncDraws, pk \in KeyOrNone(KeyA.pub), g \in {ec_G, scalar_base_mult(2)} :
       \E args \in OneMissing([C |-> encrypt_int(KeyA.pub, x, rho), NCap |-> RP.N,
                               s |-> RP.s, t |-> RP.t, x |-> x, rho |-> rho]) :
          zkp' = Proved("Logstar", [ssid |-> ssid, pk |-> pk, C |-> args.C,
                                    X |-> scalar_mult(x, g), g |-> g, NCap |-> args.NCap,
                                    s |-> args.s, t |-> args.t],
                        [x |-> args.x, rho |-> args.rho, rnd |-> rnd],
                        Logstar_new_proof(ssid, pk, args.C, scalar_mult(x, g), g, args.rho,
                                          args.x, args.NCap, args.s, args.t, rnd.alpha,
                                          rnd.mu, rnd.gamma, rnd.r))
    /\ UNCHANGED <<prog_vars, lib>>

\* the draws of ProofAffg.new_proof that are checked: the ends of the ranges of alpha
\* and beta and a value inside
AffgDraws ==
    {[alpha |-> a, beta |-> b, r |-> 1, ry |-> 1, gamma |-> m, m |-> m, delta |-> m,
      mu |-> m] : a \in {0, 1, ec_n ^ 3 - 1}, b \in {0, 1, ec_n ^ 7 - 1}, m \in 0 .. 1}

\* the inputs new_mta hands to ProofAffg.new_proof for party j's K_j = Enc_j(k_j), its own
\* share x = gamma_i and the blinding y = beta_neg
MtaInputs(k_j, x, y) ==
    LET C == encrypt_int(KeyB.pub, k_j, 1)
        D == mulmod(powmod_wide(C, x, n_square(KeyB.pub)), encrypt_int(KeyB.pub, y, 1),
                    n_square(KeyB.pub))
    IN  [NCap |-> RP.N, s |-> RP.s, t |-> RP.t, C |-> C, D |-> D,
         Y |-> encrypt_int(KeyA.pub, y, 1), x |-> x, y |-> y, rho |-> 1, rhoy |-> 1]

\* a caller of ProofAffg.new_proof, as new_mta is
zkp_Affg_new_proof ==
    /\ zkp.call = "init"
    /\ \E ssid \in ZkpSsids, x \in NonceDraws, y \in {1, ec_n ^ 5 - 1}, rnd \in AffgDraws :
       \E args \in OneMissing(MtaInputs(1, x, y)) :
          zkp' = Proved("Affg", [ssid |-> ssid, pk0 |-> KeyB.pub, pk1 |-> KeyA.pub,
                                 NCap |-> args.NCap, s |-> args.s, t |-> args.t,
                                 C |-> args.C, D |-> args.D, Y |-> args.Y,
                                 X |-> scalar_base_mult(x)],
                        [x |-> args.x, y |-> args.y, rho |-> args.rho, rhoy |-> args.rhoy,
                         rnd |-> rnd],
                        Affg_new_proof(ssid, KeyB.pub, KeyA.pub, args.NCap, args.s, args.t,
                                       args.C, args.D, args.Y, scalar_base_mult(x), args.x,
                                       args.y, args.rho, args.rhoy, rnd))
    /\ UNCHANGED <<prog_vars, lib>>

\* the proofs a counterparty can hand over in place of pf, each with the name of the change
Prm_given(pf) ==
    {<<"none", pf>>, <<"Z", [pf EXCEPT !.Z[1] = pf.Z[1] + 1]>>,
     <<"A", [pf EXCEPT !.A[1] = pf.A[1] + 1]>>, <<"A_negative", [pf EXCEPT !.A[1] = -2]>>,
     <<"Z_short", [pf EXCEPT !.Z = SubSeq(pf.Z, 1, Iterations - 1)]>>,
     <<"A_None", [pf EXCEPT !.A = NoneVal]>>}

Mod_given(pf) ==
    {<<"none", pf>>, <<"A_short", [pf EXCEPT !.A = SubSeq(pf.A, 1, Len(pf.A) - 1)]>>,
     <<"A_long", [pf EXCEPT !.A = Append(pf.A, 0)]>>,
     <<"B_short", [pf EXCEPT !.B = SubSeq(pf.B, 1, Len(pf.B) - 1)]>>,
     <<"B_long", [pf EXCEPT !.B = Append(pf.B, 1)]>>,
     <<"A_prefixed", [pf EXCEPT !.A = <<1>> \o pf.A]>>,
     <<"B_prefixed", [pf EXCEPT !.B = <<1>> \o pf.B]>>,
     <<"A_choice", [pf EXCEPT !.A[Len(pf.A)] = 2]>>,
     <<"Z_short", [pf EXCEPT !.Z = SubSeq(pf.Z, 1, Iterations - 1)]>>,
     <<"Z", [pf EXCEPT !.Z[1] = pf.Z[1] + 1]>>}

Enc_given(pf) ==
    {<<"none", pf>>, <<"Z1", [pf EXCEPT !.Z1 = pf.Z1 + 1]>>,
     <<"Z3_negative", [pf EXCEPT !.Z3 = -2]>>, <<"S", [pf EXCEPT !.S = 0]>>}

Logstar_given(pf) ==
    {<<"none", pf>>, <<"Z1", [pf EXCEPT !.Z1 = pf.Z1 + 1]>>,
     <<"Z3_negative", [pf EXCEPT !.Z3 = -2]>>, <<"Y_None", [pf EXCEPT !.Y = NoneVal]>>}

Fac_given(pf) ==
    {<<"none", pf>>, <<"Z1", [pf EXCEPT !.Z1 = pf.Z1 + 1]>>,
     <<"Sigma_negative", [pf EXCEPT !.Sigma = -2]>>, <<"V", [pf EXCEPT !.V = pf.V + 1]>>}

Affg_given(pf) ==
    {<<"none", pf>>, <<"Z1", [pf EXCEPT !.Z1 = pf.Z1 + 1]>>,
     <<"Z3_negative", [pf EXCEPT !.Z3 = -2]>>, <<"Bx_None", [pf EXCEPT !.Bx = NoneVal]>>}

Given(kind, pf) ==
    CASE kind = "Sch" -> Sch_given(pf)
      [] kind = "Prm" -> Prm_given(pf)
      [] kind = "Mod" -> Mod_given(pf)
      [] kind = "Enc" -> Enc_given(pf)
      [] kind = "Logstar" -> Logstar_given(pf)
      [] kind = "Fac" -> Fac_given(pf)
      [] kind = "Affg" -> Affg_given(pf)

\* the statements a verifier can hold in place of the prover's st: a public value that
\* is negative, zero or even, or a key or point that is missing
Gstmt(kind, st) ==
    CASE kind = "Sch" -> Sch_gstmt(st)
      [] kind = "Prm" ->
           {<<"s_negative", [st EXCEPT !.s = -2]>>, <<"N_zero", [st EXCEPT !.N = 0]>>,
            <<"N_negative", [st EXCEPT !.N = -7]>>, <<"N_even", [st EXCEPT !.N = st.N + 1]>>}
      [] kind = "Mod" ->
           {<<"N_zero", [st EXCEPT !.N = 0]>>, <<"N_negative", [st EXCEPT !.N = -7]>>,
            <<"N_even", [st EXCEPT !.N = st.N + 1]>>, <<"ssid", [st EXCEPT !.ssid = -2]>>}
      [] kind = "Enc" ->
           {<<"pk_None", [st EXCEPT !.pk = NoneVal]>>, <<"NCap_zero", [st EXCEPT !.NCap = 0]>>,
            <<"NCap_negative", [st EXCEPT !.NCap = -7]>>, <<"pk_zero", [st EXCEPT !.pk = PublicKey(0)]>>}
      [] kind = "Logstar" ->
           {<<"pk_None", [st EXCEPT !.pk = NoneVal]>>, <<"X_None", [st EXCEPT !.X = NoneVal]>>,
            <<"NCap_negative", [st EXCEPT !.NCap = -7]>>, <<"ssid", [st EXCEPT !.ssid = -2]>>}
      [] kind = "Fac" ->
           {<<"N0_negative", [st EXCEPT !.N0 = -7]>>, <<"NCap_zero", [st EXCEPT !.NCap = 0]>>,
            <<"N0_even", [st EXCEPT !.N0 = st.N0 + 1]>>, <<"ssid", [st EXCEPT !.ssid = -2]>>}
      [] kind = "Affg" ->
           {<<"pk0_None", [st EXCEPT !.pk0 = NoneVal]>>, <<"X_None", [st EXCEPT !.X = NoneVal]>>,
            <<"NCap_zero", [st EXCEPT !.NCap = 0]>>, <<"pk1_zero", [st EXCEPT !.pk1 = PublicKey(0)]>>}

\* pf.verify(...) of the class kind on the statement st
verify_call(kind, pf, st) ==
    CASE kind = "Sch" -> Sch_verify(pf, st.ssid, st.X)
      [] kind = "Prm" -> Prm_verify(pf, st.ssid, st.s, st.t, st.N)
      [] kind = "Mod" -> Mod_verify(pf, st.ssid, st.N)
      [] kind = "Enc" -> Enc_verify(pf, st.ssid, st.pk, st.NCap, st.s, st.t, st.K)
      [] kind = "Logstar" ->
           Logstar_verify(pf, st.ssid, st.pk, st.C, st.X, st.g, st.NCap, st.s, st.t)
      [] kind = "Fac" -> Fac_verify(pf, st.ssid, st.N0, st.NCap, st.s, st.t)
      [] kind = "Affg" ->
           Affg_verify(pf, st.ssid, st.pk0, st.pk1, st.NCap, st.s, st.t, st.C, st.D, st.Y, st.X)

\* pf.to_bytes_parts() of the class kind
to_bytes_parts_call(kind, pf) ==
    CASE kind = "Sch" -> Sch_to_bytes_parts(pf)
      [] kind = "Prm" -> Prm_to_bytes_parts(pf)
      [] kind = "Mod" -> Mod_to_bytes_parts(pf)
      [] kind = "Enc" -> Enc_to_bytes_parts(pf)
      [] kind = "Logstar" -> Logstar_to_bytes_parts(pf)
      [] kind = "Fac" -> Fac_to_bytes_parts(pf)
      [] kind = "Affg" -> Affg_to_bytes_parts(pf)

\* from_bytes(parts) of the class kind
from_bytes_call(kind, parts) ==
    CASE kind = "Sch" -> Sch_from_bytes(parts)
      [] kind = "Prm" -> Prm_from_bytes(parts)
      [] kind = "Mod" -> Mod_from_bytes(parts)
      [] kind = "Enc" -> Enc_from_bytes(parts)
      [] kind = "Logstar" -> Logstar_from_bytes(parts)
      [] kind = "Fac" -> Fac_from_bytes(parts)
      [] kind = "Affg" -> Affg_from_bytes(parts)

\* the number of parts from_bytes of the class kind expects
BytesParts(kind) ==
    CASE kind = "Sch" -> ProofSchBytesParts
      [] kind = "Prm" -> ProofPrmBytesParts
      [] kind = "Mod" -> ProofModBytesParts
      [] kind = "Enc" -> ProofEncBytesParts
      [] kind = "Logstar" -> ProofLogstarBytesParts
      [] kind = "Fac" -> ProofFacBytesParts
      [] kind = "Affg" -> ProofAffgBytesParts

\* a proof for a prime N built without its factors: Z_i = Y_i, and X_i the fourth root
\* of Y_i or -Y_i, whichever is a square modulo N
Mod_forged(ssid, N, W) ==
    LET Y  == Mod_Y(ssid, W, N, << >>, Iterations)
        a  == [i \in 1 .. Iterations |-> IF jacobi_odd(Y[i], N) = 1 THEN 0 ELSE 1]
        rt == (N + 1) \div 4
    IN  [W |-> W,
         X |-> [i \in 1 .. Iterations |->
                  powmod(powmod(Mod_candidate(Y[i], W, N, a[i], 0), rt, N), rt, N)],
         A |-> <<255>> \o a, B |-> <<255>> \o [i \in 1 .. Iterations |-> 0], Z |-> Y]

\* the proofs a dishonest prover hands over for a modulus it chose
ForgedMod ==
    {[kind |-> "Mod", stmt |-> [ssid |-> ssid, N |-> N], proof |-> Mod_forged(ssid, N, W)] :
        ssid \in ZkpSsids, N \in {c \in {7, 1019, 10007} : IsPrime(c)}, W \in {3, 7}}

\* a verifier calling verify on the proof it was handed
zkp_verify ==
    /\ \/ /\ zkp.call = "new_proof" /\ zkp.out.err = "ok"
          /\ \E c \in {<<g[1], g[2], zkp.stmt>> : g \in Given(zkp.kind, zkp.proof)}
                      \cup {<<g[1], zkp.proof, g[2]>> : g \in Gstmt(zkp.kind, zkp.stmt)} :
                zkp' = [zkp EXCEPT !.call = "verify", !.tamper = c[1], !.given = c[2],
                                   !.gstmt = c[3],
                                   !.out = verify_call(zkp.kind, c[2], c[3])]
       \/ /\ zkp.call = "init"
          /\ \E f \in ForgedMod : \E g \in Mod_given(f.proof) :
                zkp' = [NoCall EXCEPT !.kind = f.kind, !.call = "verify", !.stmt = f.stmt,
                                      !.proof = f.proof, !.tamper = g[1], !.given = g[2],
                                      !.gstmt = f.stmt,
                                      !.out = verify_call(f.kind, g[2], f.stmt)]
    /\ UNCHANGED <<prog_vars, lib>>

\* a sender calling to_bytes_parts on a proof object
zkp_to_bytes_parts ==
    /\ zkp.call = "new_proof" /\ zkp.out.err = "ok"
    /\ \E g \in {h \in Given(zkp.kind, zkp.proof) : h[1] \notin {"A_None", "Y_None", "Bx_None"}} :
       \E res \in {to_bytes_parts_call(zkp.kind, g[2])} :
          zkp' = [zkp EXCEPT !.call = "to_bytes_parts", !.tamper = g[1], !.given = g[2],
                             !.parts = res.val, !.out = res]
    /\ UNCHANGED <<prog_vars, lib>>

\* a receiver calling from_bytes on the parts it received, or on a list that lost or
\* gained a part
zkp_from_bytes ==
    /\ zkp.call = "to_bytes_parts" /\ zkp.out.err = "ok"
    /\ \E parts \in {zkp.parts, SubSeq(zkp.parts, 1, Len(zkp.parts) - 1),
                     Append(zkp.parts, << >>), << >>} :
          zkp' = [zkp EXCEPT !.call = "from_bytes", !.parts = parts,
                             !.out = from_bytes_call(zkp.kind, parts)]
    /\ UNCHANGED <<prog_vars, lib>>

\* ------------------------------------------------------------------------
\* Specifications
\* ------------------------------------------------------------------------
vars == <<party, sim_pc, sim_local, ret, client, line, response, running, cli_pc,
          presig_signs, since_sign, zkp, lib>>

\* the state both programs start from: two fresh parties, nothing received
InitCommon ==
    /\ party = [p \in Parties |-> Party_init(p)]
    /\ sim_local = [r1 |-> [p \in Parties |-> NoneVal], r2 |-> [p \in Parties |-> NoneVal],
                    r3 |-> [p \in Parties |-> NoneVal], out |-> [p \in Parties |-> NoneVal],
                    sigma |-> [p \in Parties |-> NoneVal],
                    is_valid |-> [p \in Parties |-> FALSE], message |-> NoneInt,
                    paillier_priv_0 |-> NoneVal, k_0 |-> NoneInt]
    /\ ret = Returned(NoneVal)
    /\ client = Party1Client_init
    /\ line = MalformedLine
    /\ response = Response("ok", "", "", JsonNull, <<>>)
    /\ presig_signs = 0
    /\ since_sign = <<>>
    /\ zkp = NoCall
    /\ lib = NoLib

\* simulate.py: main() starts, no server runs
Init ==
    /\ InitCommon
    /\ sim_pc = 1
    /\ running = FALSE
    /\ cli_pc = 0

Next ==
    \/ sim_start_phase1 \/ sim_phase1_round1 \/ sim_phase1_round2
    \/ sim_phase1_round3 \/ sim_phase1_round_out
    \/ sim_start_phase2 \/ sim_phase2_round1 \/ sim_phase2_round2
    \/ sim_phase2_round3 \/ sim_phase2_round_out
    \/ sim_start_phase3 \/ sim_phase3_round1 \/ sim_phase3_round2
    \/ sim_phase3_round3 \/ sim_phase3_round_out
    \/ sim_start_phase4 \/ sim_message \/ sim_phase4_sign \/ sim_phase4_verify
    \/ sim_assert

Spec == Init /\ [][Next]_vars

\* main.py started by exp1.py: the server waits for the first command
InitServer ==
    /\ InitCommon
    /\ sim_pc = 0
    /\ running = TRUE
    /\ cli_pc = 1

NextServer == cli_local \/ srv_process_command

SpecServer == InitServer /\ [][NextServer]_vars

\* the proof classes called on their own: no party is running
InitZkp ==
    /\ InitCommon
    /\ sim_pc = 0
    /\ running = FALSE
    /\ cli_pc = 0

NextZkp ==
    \/ zkp_Sch_new_proof \/ zkp_Sch_new_proof_with_alpha \/ zkp_Prm_new_proof
    \/ zkp_Mod_new_proof \/ zkp_Fac_new_proof \/ zkp_Enc_new_proof
    \/ zkp_Logstar_new_proof \/ zkp_Affg_new_proof
    \/ zkp_verify \/ zkp_to_bytes_parts \/ zkp_from_bytes

SpecZkp == InitZkp /\ [][NextZkp]_vars

\* ------------------------------------------------------------------------
\* Properties of the honest run
\* ------------------------------------------------------------------------

\* C8: two honest parties that complete Keygen hold the same joint public
\* key X, which is the sum of the two public shares X_0 + X_1 they
\* exchanged, and the same session id, which is rid_0 XOR rid_1.
C8_KeygenAgreement ==
    SimReturned("phase1_round_out", 1) =>
        /\ party[0].keygen_data.X = party[1].keygen_data.X
        /\ party[0].keygen_data.X = point_add(sim_local.r2[0].X, sim_local.r2[1].X)
        /\ party[0].keygen_data.X =
               scalar_base_mult(party[0].keygen_data.xi + party[1].keygen_data.xi)
        /\ party[0].keygen_data.ssid = party[1].keygen_data.ssid
        /\ party[0].keygen_data.ssid = BitXor(sim_local.r2[0].rid, sim_local.r2[1].rid)

\* C8 witness: Keygen completed for both parties with different shares and
\* different rid contributions
C8_Witness ==
    /\ SimReturned("phase1_round_out", 1)
    /\ party[0].keygen_data.xi # party[1].keygen_data.xi
    /\ sim_local.r2[0].rid # sim_local.r2[1].rid
    /\ party[0].keygen_data.ssid # 0

\* C10: after two honest parties complete Aux, what each records for its
\* counterparty (paillier_pub_j.n, sj, tj) is the counterparty's own
\* modulus and (si, ti).
C10_AuxCounterpartyParams ==
    SimReturned("phase2_round_out", 1) =>
        \A p \in Parties :
            /\ party[p].aux_data.paillier_pub_j.n = party[Other(p)].aux_data.paillier_pub_i.n
            /\ party[p].aux_data.sj = party[Other(p)].aux_data.si
            /\ party[p].aux_data.tj = party[Other(p)].aux_data.ti

\* C10 witness: Aux completed for both parties, whose moduli and
\* Ring-Pedersen pairs differ
C10_Witness ==
    /\ SimReturned("phase2_round_out", 1)
    /\ party[0].aux_data.paillier_pub_i.n # party[1].aux_data.paillier_pub_i.n
    /\ party[0].aux_data.si # party[1].aux_data.si
    /\ party[0].aux_data.ti # party[1].aux_data.ti

\* C9: two honest parties that complete Presigning output the same point R,
\* and R = delta^-1 * Gamma with delta = (delta_0 + delta_1) mod q and
\* Gamma = Gamma_0 + Gamma_1, the shares being those the parties exchanged.
C9_PresigningAgreement ==
    SimReturned("phase3_round_out", 1) =>
        LET delta == (sim_local.r3[0].delta + sim_local.r3[1].delta) % ec_n
            Gamma == point_add(sim_local.r2[0].Gamma, sim_local.r2[1].Gamma)
        IN  /\ party[0].presig_data.R = party[1].presig_data.R
            /\ (delta * invert(delta, ec_n)) % ec_n = 1
            /\ party[0].presig_data.R = scalar_mult(invert(delta, ec_n), Gamma)

\* C9 witness: Presigning completed for both parties with delta other than
\* 1 and the two Gamma shares different
C9_Witness ==
    /\ SimReturned("phase3_round_out", 1)
    /\ (sim_local.r3[0].delta + sim_local.r3[1].delta) % ec_n > 1
    /\ sim_local.r2[0].Gamma # sim_local.r2[1].Gamma
    /\ ~party[0].presig_data.R.inf

\* the signature value s the two exchanged shares combine to
SimCombinedS == (sim_local.sigma[0].sigma + sim_local.sigma[1].sigma) % ec_n

MtaBlindings(ssid) == {mta_beta_neg(ssid)}

\* the shares x_i consistent with what party j decrypts from the MtA
\* ciphertext _D of its counterparty, given j's own nonce share k_j
XiCandidates(j) ==
    LET alpha == decrypt(party[j].aux_data.paillier_priv_i, sim_local.r2[Other(j)]._D)
        k_j   == party[j].presigning_protocol.k_i
        n_j   == party[j].aux_data.paillier_pub_i.n
    IN  {x \in random_scalar :
            \E b \in MtaBlindings(party[j].keygen_data.ssid) :
                alpha = (x * k_j + b) % n_j}

\* C2: in the honest run, once both round-2 messages of Presigning are out,
\* the view of party j does not determine the share x_i of its
\* counterparty: more than one share is consistent with the value j
\* decrypts from the MtA ciphertext for x_i * k_j.
C2_ShareStaysMasked ==
    SimReturned("phase3_round2", 1) =>
        \A j \in Parties : Cardinality(XiCandidates(j)) > 1

\* C4: after a call of phase4_verify in the honest run, whatever its
\* outcome, the party's presig_data and signing_protocol are None.
C4_VerifyClearsPresignature ==
    \A p \in Parties :
        SimCalled("phase4_verify", p) =>
            IsNone(party[p].presig_data) /\ IsNone(party[p].signing_protocol)

\* ------------------------------------------------------------------------
\* Properties of the server
\* ------------------------------------------------------------------------
\* this step is a turn of main()'s loop that printed a new response
ServerStep == <<line, response>>' # <<line, response>>

\* the order of protocol commands: the step after (phase, action)
OrderSuccessor(phase, action) ==
    IF phase = 4
    THEN CASE action = "start_phase" -> <<4, "sign">>
           [] action = "sign" -> <<4, "verify">>
           [] OTHER -> <<3, "start_phase">>
    ELSE CASE action = "start_phase" -> <<phase, "round1">>
           [] action = "round1" -> <<phase, "round2">>
           [] action = "round2" -> <<phase, "round3">>
           [] action = "round3" -> <<phase, "round_out">>
           [] OTHER -> <<phase + 1, "start_phase">>

\* the accepted commands from one sign to the next: verify, a complete
\* presigning phase, and the start of phase 4
PresigningRun ==
    << <<4, "sign">>, <<4, "verify">>, <<3, "start_phase">>, <<3, "round1">>,
       <<3, "round2">>, <<3, "round3">>, <<3, "round_out">>, <<4, "start_phase">> >>

\* C3: whatever lines the client sends, a sign command is accepted (and
\* Signing.sign runs) only on a presignature no sign has used, and the
\* commands accepted since the previous accepted sign are verify, a
\* complete phase 3 and the start of phase 4.
C3_PresignatureSingleUse ==
    [][presig_signs' = presig_signs + 1 =>
          /\ presig_signs = 0
          /\ since_sign # <<>> => since_sign = PresigningRun]_vars

\* C3 witness: a second sign command has been accepted, after a first
\* signature was completed
C3_Witness ==
    /\ client.signing_completed
    /\ response.status = "ok" /\ response.action = "sign"
    /\ since_sign = << <<4, "sign">> >>
    /\ presig_signs = 1

\* C5: a command is accepted only as the step the order expects, and then
\* the order's next step is expected; any other (phase, action) pair except
\* guess_key is answered with 'Protocol flow violation.' and leaves the
\* expected step and the party unchanged.
C5_CommandOrder ==
    [][ServerStep /\ ~line'.malformed /\ line'.action # "guess_key" =>
          IF /\ line'.phase = JsonInt(client.current_phase)
             /\ line'.action = client.expected_action
          THEN response'.status = "ok" =>
                   <<client'.current_phase, client'.expected_action>> =
                       OrderSuccessor(client.current_phase, client.expected_action)
          ELSE /\ response'.message = "Protocol flow violation."
               /\ client' = client
               /\ party'[1] = party[1]]_vars

\* C6: the response to a VerificationError leaves the expected step where
\* it was and ends the server loop, and once the loop has ended the party
\* and the client attributes never change again.
C6_FailedPhaseTerminal ==
    [][/\ response'.message = "Protocol verification failed" =>
              /\ ~running'
              /\ client'.current_phase = client.current_phase
              /\ client'.expected_action = client.expected_action
       /\ ~running => ~running' /\ party'[1] = party[1] /\ client' = client]_vars

\* C6 witness: a round call of phase 3 failed verification; the command is
\* still the expected step and the loop has ended
C6_Witness ==
    /\ response.message = "Protocol verification failed"
    /\ line.phase = JsonInt(3) /\ line.action = "round3"
    /\ client.current_phase = 3 /\ client.expected_action = "round3"
    /\ ~running

\* the Party's handler for a phase
HandlerOf(pt, phase) ==
    CASE phase = 1 -> pt.keygen_protocol
      [] phase = 2 -> pt.aux_protocol
      [] phase = 3 -> pt.presigning_protocol
      [] OTHER -> pt.signing_protocol

\* C7: when a round call of a phase has failed verification, the Party's
\* handler for that phase and the stored counterparty round-1 message are
\* None.
C7_FailureDiscardsPhase ==
    response.message = "Protocol verification failed" =>
        /\ IsNone(HandlerOf(party[1], client.current_phase))
        /\ IsNone(party[1].p_other_msg_r1)

\* ------------------------------------------------------------------------
\* The proof classes called on their own (SpecZkp)
\* ------------------------------------------------------------------------

\* C11: verify of every proof class never raises: whatever proof and statement
\* it is called on (a field out of range, a modulus that is even, zero or
\* negative, a missing key), the call returns, and returns False when the proof
\* or the statement is not valid.
C11_VerifyNeverRaises ==
    zkp.call = "verify" => zkp.out.err = "ok"

\* the integer arguments new_proof of the class requires, as the call z passed them
RequiredInts(z) ==
    CASE z.kind = "Sch" ->
           {z.wit.x} \cup (IF z.wit.via = "new_proof_with_alpha" THEN {z.wit.alpha} ELSE {})
      [] z.kind = "Prm" -> {z.stmt.s, z.stmt.t, z.stmt.N, z.wit.Phi, z.wit.lam}
      [] z.kind = "Mod" -> {z.stmt.N, z.wit.P, z.wit.Q}
      [] z.kind = "Enc" ->
           {z.stmt.K, z.stmt.NCap, z.stmt.s, z.stmt.t, z.wit.k, z.wit.rho}
      [] z.kind = "Logstar" ->
           {z.stmt.C, z.stmt.NCap, z.stmt.s, z.stmt.t, z.wit.x, z.wit.rho}
      [] z.kind = "Fac" ->
           {z.stmt.N0, z.stmt.NCap, z.stmt.s, z.stmt.t, z.wit.N0p, z.wit.N0q}
      [] z.kind = "Affg" ->
           {z.stmt.NCap, z.stmt.s, z.stmt.t, z.stmt.C, z.stmt.D, z.stmt.Y,
            z.wit.x, z.wit.y, z.wit.rho, z.wit.rhoy}

\* the keys and points new_proof of the class requires, as the call z passed them
RequiredObjs(z) ==
    CASE z.kind = "Sch" -> {z.stmt.X}
      [] z.kind = "Enc" -> {z.stmt.pk}
      [] z.kind = "Logstar" -> {z.stmt.pk, z.stmt.X, z.stmt.g}
      [] z.kind = "Affg" -> {z.stmt.pk0, z.stmt.pk1, z.stmt.X}
      [] OTHER -> {}

\* a required argument of the call z is None or zero
MissingOrZero(z) ==
    \/ \E v \in RequiredInts(z) : v = NoneInt \/ v = 0
    \/ \E o \in RequiredObjs(z) : IsNone(o)

\* C12: new_proof of every proof class fails with an error, and returns no
\* proof, whenever one of its required arguments is None or zero.
C12_NewProofRejectsMissing ==
    zkp.call = "new_proof" /\ MissingOrZero(zkp) =>
        zkp.out.err # "ok" /\ IsNone(zkp.proof)

\* C12, the classes that test their arguments with "not all([...])": Prm, Mod,
\* Fac and Aff-g do fail on every None or zero argument.
C12_NotAllRejects ==
    zkp.call = "new_proof" /\ zkp.kind \in {"Prm", "Mod", "Fac", "Affg"} /\ MissingOrZero(zkp) =>
        zkp.out.err = "ValueError" /\ IsNone(zkp.proof)

\* C13: Schnorr completeness.  For every scalar x in [0, q) with X = x*G, every
\* ssid and every nonce alpha with A = alpha*G, the proof that
\* ProofSch.new_proof_with_alpha(ssid, X, A, alpha, x) returns is accepted by
\* verify(ssid, X).
C13_SchnorrComplete ==
    /\ zkp.call = "verify" /\ zkp.kind = "Sch" /\ zkp.tamper = "none"
    /\ zkp.wit.via = "new_proof_with_alpha"
    => zkp.out = Returned(TRUE)

\* C13 witness: a proof for x > 0 made with a nonce alpha > 0, whose response Z
\* differs from alpha (the challenge is not zero), was verified and accepted
C13_Witness ==
    /\ zkp.call = "verify" /\ zkp.kind = "Sch" /\ zkp.tamper = "none"
    /\ zkp.wit.via = "new_proof_with_alpha"
    /\ zkp.wit.x > 0 /\ zkp.wit.alpha > 0 /\ zkp.given.Z # zkp.wit.alpha
    /\ zkp.given = zkp.proof /\ zkp.gstmt = zkp.stmt
    /\ zkp.out = Returned(TRUE)

\* C14: Aff-g completeness in MtA.  For every valid input of new_mta (x in
\* [1, q), y in [1, q^5), C, D, Y the ciphertexts new_mta computes) and every
\* value of the prover's draws in their sampling ranges, the proof
\* ProofAffg.new_proof returns is accepted by ProofAffg.verify on the same
\* statement, its range checks on Z1 .. Z4 included.
C14_AffgComplete ==
    /\ zkp.call = "verify" /\ zkp.kind = "Affg" /\ zkp.tamper = "none"
    /\ zkp.wit.x \in 1 .. ec_n - 1 /\ zkp.wit.y \in 1 .. ec_n ^ 5 - 1
    /\ zkp.wit.rnd.alpha \in 0 .. ec_n ^ 3 - 1 /\ zkp.wit.rnd.beta \in 0 .. ec_n ^ 7 - 1
    => zkp.out = Returned(TRUE)

\* C15: Prm completeness.  For every valid statement (t in Z_N^*, s = t^lambda
\* mod N, s # t, both in (1, N)) and every value of the 80 exponents a_i in
\* [0, phi(N)), the proof ProofPrm.new_proof returns is accepted by
\* ProofPrm.verify(ssid, s, t, N).
C15_PrmComplete ==
    /\ zkp.call = "verify" /\ zkp.kind = "Prm" /\ zkp.tamper = "none"
    /\ 1 < zkp.stmt.s /\ zkp.stmt.s < zkp.stmt.N /\ 1 < zkp.stmt.t /\ zkp.stmt.t < zkp.stmt.N
    /\ zkp.stmt.s # zkp.stmt.t /\ Gcd(zkp.stmt.t, zkp.stmt.N) = 1
    /\ zkp.stmt.s = powmod(zkp.stmt.t, zkp.wit.lam, zkp.stmt.N)
    /\ \A i \in 1 .. Iterations : zkp.wit.a[i] \in 0 .. zkp.wit.Phi - 1
    => zkp.out = Returned(TRUE)

\* C16: Schnorr spot soundness.  For a proof (A, Z) that ProofSch.verify accepts
\* for (ssid, X), verify(ssid, X) returns False once Z is replaced by any
\* different integer or A by any different point.
C16_SchnorrSpotSound ==
    /\ zkp.call = "verify" /\ zkp.kind = "Sch" /\ zkp.tamper \in {"Z", "A"}
    /\ Sch_verify(zkp.proof, zkp.stmt.ssid, zkp.stmt.X) = Returned(TRUE)
    /\ zkp.gstmt = zkp.stmt
    /\ \/ zkp.given.A = zkp.proof.A /\ zkp.given.Z # zkp.proof.Z
       \/ zkp.given.Z = zkp.proof.Z /\ zkp.given.A # zkp.proof.A
    => zkp.out = Returned(FALSE)

\* C17: ProofMod.verify(ssid, N) returns False for every proof (W, X, A, B, Z)
\* whenever the modulus N is a prime
C17_ModRejectsPrime ==
    zkp.call = "verify" /\ zkp.kind = "Mod" /\ ~IsNone(zkp.gstmt)
        /\ zkp.gstmt.N > 1 /\ IsPrime(zkp.gstmt.N)
    => zkp.out = Returned(FALSE)

\* the byte length the packed vector A or B must have: one header byte and one byte
\* for each round
WrongLength(v) == Len(v) # Iterations + 1

PointsFinite(kind, pf) ==
    CASE kind = "Sch" -> ~pf.A.inf
      [] kind = "Logstar" -> ~pf.Y.inf
      [] kind = "Affg" -> ~pf.Bx.inf
      [] OTHER -> TRUE

\* C19: proof serialization round-trips: for every proof type and all field values,
\* from_bytes(to_bytes_parts(p)) yields a proof whose fields equal those of p, zero
\* fields included; stated here for the proofs p that new_proof returned
C19_RoundTrip ==
    zkp.tamper = "none" /\ zkp.call \in {"to_bytes_parts", "from_bytes"}
        /\ PointsFinite(zkp.kind, zkp.given)
    => /\ zkp.call = "to_bytes_parts" => zkp.out.err = "ok"
       /\ zkp.call = "from_bytes" /\ Returned(zkp.parts) = to_bytes_parts_call(zkp.kind, zkp.given)
          => zkp.out = Returned(zkp.given)

\* the number of parts the specification gives for each proof type
SpecArity(kind) ==
    CASE kind = "Sch" -> 3
      [] kind = "Enc" -> 6
      [] kind = "Affg" -> 14
      [] kind = "Logstar" -> 8
      [] kind = "Fac" -> 11
      [] kind = "Prm" -> 160
      [] kind = "Mod" -> 163

\* C20: for every proof type, from_bytes fails with a format error (ValueError) and
\* constructs no proof whenever the list of parts does not have exactly the type's
\* arity: Sch 3, Enc 6, Aff-g 14, Log* 8, Fac 11, Prm 160, Mod 163
C20_FromBytesArity ==
    zkp.call = "from_bytes" /\ Len(zkp.parts) # SpecArity(zkp.kind)
    => zkp.out = Raised("ValueError")

\* a ProofMod serialisation that lost its last part is refused
C20_Witness ==
    /\ zkp.call = "from_bytes" /\ zkp.kind = "Mod" /\ zkp.tamper = "none"
    /\ Len(zkp.parts) = 162
    /\ zkp.out.err = "ValueError" /\ IsNone(zkp.out.val)

\* ------------------------------------------------------------------------
\* The functions of crypto/ called on their own (SpecLib).  lib records the
\* last call: the function, the key it was called on, its arguments and its
\* outcome.  The Paillier operations are computed on the integers modulo
\* N^2, as the code computes them.
\* ------------------------------------------------------------------------
\* PublicKey.encrypt_with_randomness(m, x) with a gamma^m taken modulo N only
Paillier_encrypt_with_randomness_mut(pk, m, x) ==
    IF ~(0 <= m /\ m < pk.n) THEN Raised("MessageMalFormedError")
    ELSE IF ~(0 < x /\ x < pk.n /\ Gcd(x, pk.n) = 1) THEN Raised("WrongRandomnessError")
    ELSE Returned(mulmod(powmod_wide(pk_gamma(pk), m, pk.n),
                         powmod_wide(x, pk.n, n_square(pk)), n_square(pk)))

\* PublicKey.encrypt_with_randomness(m, x); encrypt_and_return_randomness(m) is this
\* call on the x that get_random_positive_relatively_prime_int drew
Paillier_encrypt_with_randomness(pk, m, x) ==
    IF ~(0 <= m /\ m < pk.n) THEN Raised("MessageMalFormedError")
    ELSE IF ~(0 < x /\ x < pk.n /\ Gcd(x, pk.n) = 1) THEN Raised("WrongRandomnessError")
    ELSE Returned(mulmod(powmod_wide(pk_gamma(pk), m, n_square(pk)),
                         powmod_wide(x, pk.n, n_square(pk)), n_square(pk)))

\* PublicKey.homo_mult(m, c1)
Paillier_homo_mult(pk, m, c1) ==
    IF ~(0 <= m /\ m < pk.n) THEN Raised("MessageMalFormedError")
    ELSE IF ~(0 <= c1 /\ c1 < n_square(pk)) THEN Raised("MessageTooLongError")
    ELSE Returned(powmod_wide(c1, m, n_square(pk)))

\* PublicKey.homo_add(c1, c2) with the ciphertexts added instead of multiplied
Paillier_homo_add_mut(pk, c1, c2) ==
    IF ~(0 <= c1 /\ c1 < n_square(pk)) \/ ~(0 <= c2 /\ c2 < n_square(pk))
    THEN Raised("MessageMalFormedError")
    ELSE Returned((c1 + c2) % n_square(pk))

\* PublicKey.homo_add(c1, c2)
Paillier_homo_add(pk, c1, c2) ==
    IF ~(0 <= c1 /\ c1 < n_square(pk)) \/ ~(0 <= c2 /\ c2 < n_square(pk))
    THEN Raised("MessageMalFormedError")
    ELSE Returned(mulmod(c1, c2, n_square(pk)))

\* PrivateKey._L(u) = (u - 1) // N
Paillier_L(priv, u) == (u - 1) \div priv.n

\* the value PrivateKey.cache_lg_inv stores in _lg_inv: gmpy2.invert raises
\* ZeroDivisionError when L(g^lambda) has no inverse modulo N
Paillier_lg_inv(priv) ==
    LET lg == Paillier_L(priv, powmod_wide(pk_gamma(priv), priv.lambda_n, n_square(priv)))
    IN  IF Gcd(lg % priv.n, priv.n) # 1 THEN Raised("ZeroDivisionError")
        ELSE Returned(invert(lg % priv.n, priv.n))

\* PrivateKey.decrypt(c) on a key whose _lg_inv is not cached yet
Paillier_decrypt(priv, c) ==
    IF ~(0 <= c /\ c < n_square(priv) /\ Gcd(c, n_square(priv)) = 1)
    THEN Raised("MessageMalFormedError")
    ELSE IF Paillier_lg_inv(priv).err # "ok" THEN Paillier_lg_inv(priv)
    ELSE Returned(mulmod(Paillier_L(priv, powmod_wide(c, priv.lambda_n, n_square(priv))),
                         Paillier_lg_inv(priv).val, priv.n))

\* the plaintexts and scalars handed to the Paillier operations: the ends of [0, N),
\* values inside, and the two nearest values outside
PlainDraws(n) == {-1, 0, 1, 2, n \div 2, n - 2, n - 1, n}

\* the randomness handed to encrypt_with_randomness for the key kp: elements of
\* Z_N^*, and 0 and a factor of N, which are not
RandDraws(kp) == {0, 1, 2, kp.p, kp.pub.n - 1}

\* the randomness get_random_positive_relatively_prime_int can draw
UnitDraws(kp) == {x \in RandDraws(kp) : 0 < x /\ x < kp.pub.n /\ Gcd(x, kp.pub.n) = 1}

\* a caller of PublicKey.encrypt_with_randomness(m, x)
lib_encrypt ==
    /\ lib.fn = "init"
    /\ \E kp \in ZkpKeys : \E m \in PlainDraws(kp.pub.n), x \in RandDraws(kp) :
          lib' = [fn |-> "encrypt", key |-> kp, args |-> [m |-> m, x |-> x],
                  out |-> Paillier_encrypt_with_randomness(kp.pub, m, x)]
    /\ UNCHANGED <<prog_vars, zkp>>

\* a caller of PublicKey.homo_add(c1, c2) on the ciphertext c1 of a and a fresh
\* ciphertext c2 of b, or on a c2 outside [0, N^2)
lib_homo_add ==
    /\ lib.fn = "encrypt" /\ lib.out.err = "ok"
    /\ \E b \in {m \in PlainDraws(lib.key.pub.n) : 0 <= m /\ m < lib.key.pub.n},
          y \in UnitDraws(lib.key) :
       \E c2 \in {Paillier_encrypt_with_randomness(lib.key.pub, b, y).val,
                  n_square(lib.key.pub)} :
          lib' = [fn |-> "homo_add", key |-> lib.key,
                  args |-> [a |-> lib.args.m, b |-> b, c1 |-> lib.out.val, c2 |-> c2],
                  out |-> Paillier_homo_add(lib.key.pub, lib.out.val, c2)]
    /\ UNCHANGED <<prog_vars, zkp>>

\* a caller of PublicKey.homo_mult(k, c1) on the ciphertext c1 of a
lib_homo_mult ==
    /\ lib.fn = "encrypt" /\ lib.out.err = "ok"
    /\ \E k \in PlainDraws(lib.key.pub.n) :
          lib' = [fn |-> "homo_mult", key |-> lib.key,
                  args |-> [a |-> lib.args.m, k |-> k, c1 |-> lib.out.val],
                  out |-> Paillier_homo_mult(lib.key.pub, k, lib.out.val)]
    /\ UNCHANGED <<prog_vars, zkp>>

\* a caller of PrivateKey.decrypt(c) on the ciphertext the last call returned, or
\* on the multiple c * p of a factor of N
lib_decrypt ==
    /\ lib.fn \in {"encrypt", "homo_add", "homo_mult"} /\ lib.out.err = "ok"
    /\ \E c \in {lib.out.val, mulmod(lib.out.val, lib.key.p, n_square(lib.key.pub))} :
          lib' = [fn |-> "decrypt", key |-> lib.key,
                  args |-> [of |-> lib.fn, was |-> lib.args, got |-> lib.out.val, c |-> c],
                  out |-> Paillier_decrypt(lib.key.priv, c)]
    /\ UNCHANGED <<prog_vars, zkp>>

\* C21: Paillier round-trip: for every valid key (N = p*q), every m with
\* 0 <= m < N and every encryption randomness x in Z_N^*, Decrypt(Encrypt(m)) = m
C21_PaillierRoundTrip ==
    lib.fn = "decrypt" /\ lib.args.of = "encrypt" /\ lib.args.c = lib.args.got
    => lib.out = Returned(lib.args.was.m)

\* the largest plaintext, encrypted with a randomness other than 1, is decrypted
C21_Witness ==
    /\ lib.fn = "decrypt" /\ lib.args.of = "encrypt" /\ lib.args.c = lib.args.got
    /\ lib.args.was.m = lib.key.pub.n - 1 /\ lib.args.was.x = lib.key.pub.n - 1
    /\ lib.out = Returned(lib.key.pub.n - 1)

\* C22: Paillier homomorphism: for every valid key and all a, b, k in [0, N),
\* Decrypt(HomoAdd(Enc(a), Enc(b))) = (a + b) mod N and
\* Decrypt(HomoMult(k, Enc(a))) = (k * a) mod N
C22_PaillierHomomorphism ==
    lib.fn = "decrypt" /\ lib.args.c = lib.args.got
    => /\ lib.args.of = "homo_add"
          => lib.out = Returned((lib.args.was.a + lib.args.was.b) % lib.key.pub.n)
       /\ lib.args.of = "homo_mult"
          => lib.out = Returned(mulmod(lib.args.was.k, lib.args.was.a, lib.key.pub.n))

\* a sum that wraps around N is decrypted
C22_Witness ==
    /\ lib.fn = "decrypt" /\ lib.args.c = lib.args.got /\ lib.args.of = "homo_add"
    /\ lib.args.was.a = lib.key.pub.n - 1 /\ lib.args.was.b = 2
    /\ lib.out = Returned(1)

\* party i's share with the blinding not negated
mta_beta_mut(beta_neg) == beta_neg

\* new_mta: party i's unreduced share beta = q5 - beta_neg
mta_beta(beta_neg) == q5 - beta_neg

\* new_mta: the ciphertext Dji = Enc_j(gamma_i * k_j + beta_neg) it sends to party j,
\* for the blinding beta_neg and the encryption randomness sij it draws
mta_Dji(pkj, Kj, gamma_i, beta_neg, sij) ==
    LET gammaK == Paillier_homo_mult(pkj, gamma_i % pkj.n, Kj)
        Dji    == Paillier_encrypt_with_randomness(pkj, beta_neg % pkj.n, sij)
    IN  IF gammaK.err # "ok" THEN gammaK
        ELSE IF Dji.err # "ok" THEN Dji
        ELSE Paillier_homo_add(pkj, gammaK.val, Dji.val)

\* the blindings beta_neg of new_mta that are checked: those the session identifiers
\* of the model give, and the ends of [0, q^5)
BlindingDraws == {mta_beta_neg(ssid) : ssid \in ZkpSsids} \cup {0, 1, q5 - 1}

\* party i running new_mta on K_j = Enc_j(k_j), and party j decrypting D in
\* Presigning.round3
lib_mta ==
    /\ lib.fn = "init"
    /\ \E kp \in ZkpKeys, k_j \in 0 .. ec_n - 1, gamma_i \in 0 .. ec_n - 1,
          beta_neg \in BlindingDraws :
       \E rho \in UnitDraws(kp), sij \in UnitDraws(kp) :
          LET Kj == Paillier_encrypt_with_randomness(kp.pub, k_j, rho).val
              D  == mta_Dji(kp.pub, Kj, gamma_i, beta_neg, sij)
          IN  lib' = [fn |-> "mta", key |-> kp,
                      args |-> [k_j |-> k_j, gamma_i |-> gamma_i, beta_neg |-> beta_neg,
                                beta |-> mta_beta(beta_neg), D |-> D],
                      out |-> IF D.err # "ok" THEN D ELSE Paillier_decrypt(kp.priv, D.val)]
    /\ UNCHANGED <<prog_vars, zkp>>

\* C23: MtA additive-share identity: for honest parties alpha + beta is congruent to
\* gamma_i * k_j modulo q, where alpha = Dec_j(D) and beta = q^5 - beta_neg, for all
\* gamma_i, k_j in [0, q) and beta_neg in [0, q^5); gamma_i * k_j + beta_neg stays
\* below N_j
C23_MtaShares ==
    lib.fn = "mta"
    => /\ lib.out.err = "ok"
       /\ (lib.out.val + lib.args.beta) % ec_n = (lib.args.gamma_i * lib.args.k_j) % ec_n
       /\ lib.args.gamma_i * lib.args.k_j + lib.args.beta_neg < lib.key.pub.n
       /\ lib.out.val = lib.args.gamma_i * lib.args.k_j + lib.args.beta_neg

\* the largest inputs: gamma_i = k_j = q - 1 and beta_neg = q^5 - 1
C23_Witness ==
    /\ lib.fn = "mta" /\ lib.args.gamma_i = ec_n - 1 /\ lib.args.k_j = ec_n - 1
    /\ lib.args.beta_neg = q5 - 1 /\ lib.args.beta = 1
    /\ lib.out = Returned((ec_n - 1) * (ec_n - 1) + q5 - 1)

\* the finite points of the curve, as R and X of a presignature
FinitePoints == {P \in CurvePoints : ~P.inf}

\* a caller of Signing(id, ec, presig_data, X) on a presignature (R, k_i, chi_i)
lib_Signing_init ==
    /\ lib.fn = "init"
    /\ \E R \in FinitePoints, X \in FinitePoints, k_i \in 0 .. ec_n - 1,
          chi_i \in 0 .. ec_n - 1 :
          lib' = [fn |-> "Signing", key |-> NoneVal,
                  args |-> [R |-> R, X |-> X, k_i |-> k_i, chi_i |-> chi_i],
                  out |-> Signing_init(0, [R |-> R, k_i |-> k_i, chi_i |-> chi_i], X)]
    /\ UNCHANGED <<prog_vars, zkp>>

\* a caller of Signing.sign(message); key holds the Signing object
lib_Signing_sign ==
    /\ lib.fn = "Signing" /\ lib.out.err = "ok"
    /\ \E m \in Messages :
          lib' = [fn |-> "Signing.sign", key |-> Signing_sign(lib.out.val, m).self,
                  args |-> [message |-> m], out |-> Signing_sign(lib.out.val, m).out]
    /\ UNCHANGED <<prog_vars, zkp>>

\* a caller of Signing.verify(message, msg_j) on any share sigma of the counterparty
lib_Signing_verify ==
    /\ lib.fn = "Signing.sign" /\ lib.out.err = "ok"
    /\ \E sigma \in 0 .. 2 * ec_n - 1 :
          lib' = [fn |-> "Signing.verify", key |-> lib.key,
                  args |-> [message |-> lib.args.message, sigma |-> sigma],
                  out |-> Signing_verify(lib.key, lib.args.message, [sigma |-> sigma])]
    /\ UNCHANGED <<prog_vars, zkp>>

\* C24: Signing never accepts a degenerate signature: constructing Signing fails
\* when r = R.x mod q is 0, Signing.verify fails when s = (sigma_i + sigma_j) mod q
\* is 0, and no signature with r = 0 or s = 0 is reported valid
C24_NoDegenerateSignature ==
    /\ lib.fn = "Signing" /\ lib.args.R.x % ec_n = 0 => lib.out = Raised("ValueError")
    /\ lib.fn = "Signing.verify" /\ (lib.key.sigma_i + lib.args.sigma) % ec_n = 0
       => lib.out = Raised("VerificationError")
    /\ lib.fn = "Signing.verify" /\ lib.out = Returned(TRUE)
       => lib.key.r # 0 /\ (lib.key.sigma_i + lib.args.sigma) % ec_n # 0

\* a presignature whose R has x-coordinate 0 modulo q is refused
C24_Witness ==
    /\ lib.fn = "Signing" /\ lib.args.R = ec_G /\ lib.args.R.x % ec_n = 0
    /\ lib.out = Raised("ValueError")

\* shares that add up to 0 modulo q are refused
C24_WitnessS ==
    /\ lib.fn = "Signing.verify" /\ lib.key.sigma_i > 0
    /\ lib.args.sigma = ec_n - lib.key.sigma_i
    /\ lib.out = Raised("VerificationError")

\* C25: Signing.verify returns True if the combined signature (r, (sigma_i + sigma_j)
\* mod q) is a valid ECDSA signature of the message under X, and returns False
\* otherwise (for example when the counterparty's share sigma_j is wrong)
C25_VerifyReturnsBool ==
    lib.fn = "Signing.verify"
    => lib.out = Returned(ec_verify(lib.key.X, message_digest(lib.args.message), lib.key.r,
                                    Signing_s(lib.key.sigma_i, lib.args.sigma)))

\* what holds in its place: True for a valid signature, VerificationError otherwise
C25_VerifyReturnsOrRaises ==
    lib.fn = "Signing.verify"
    => lib.out = IF ec_verify(lib.key.X, message_digest(lib.args.message), lib.key.r,
                              Signing_s(lib.key.sigma_i, lib.args.sigma))
                 THEN Returned(TRUE) ELSE Raised("VerificationError")

\* the last line read was a guess_key command
GuessAnswered == ~line.malformed /\ line.action = "guess_key" /\ response.status = "ok"

\* C26: guess_key returns the flag only if a signing round has completed with a
\* successful verify (signing_completed is set) and the guess equals Party 1's
\* share xi; signing_completed is set only by a verify that returned True, so
\* before the first successful verify every guess is answered correct = False
C26_FlagOnlyAfterVerify ==
    [][/\ (ServerStep /\ ~line'.malformed /\ line'.action = "guess_key")
          => /\ response'.result.correct
                => /\ client.signing_completed
                   /\ "guess" \in DOMAIN line'.data
                   /\ line'.data.guess = party[1].keygen_data.xi
                   /\ response'.result.message = "flag"
             /\ ~client.signing_completed => ~response'.result.correct
             /\ client' = client
       /\ (~client.signing_completed /\ client'.signing_completed)
          => /\ line'.action = "verify" /\ response'.status = "ok"
             /\ response'.result = [verify |-> TRUE]]_vars

\* a guess of xi made before any verify succeeded is refused
C26_Witness ==
    /\ GuessAnswered /\ ~client.signing_completed
    /\ "guess" \in DOMAIN line.data
    /\ line.data.guess = party[1].keygen_data.xi
    /\ ~response.result.correct

\* a guess of xi made after a verify succeeded gets the flag
C26_WitnessFlag ==
    /\ GuessAnswered /\ client.signing_completed /\ response.result.correct

\* a wrong guess made after a verify succeeded is refused
C26_WitnessWrong ==
    /\ GuessAnswered /\ client.signing_completed /\ ~response.result.correct

\* HASH_INPUT_DELIMITER = b"$"
HASH_INPUT_DELIMITER == <<36>>

RECURSIVE sha512_256_util_data(_)
\* sha512_256_util: the bytearray data handed to h.update, each input followed
\* by the delimiter
sha512_256_util_data(in_data) ==
    IF in_data = << >> THEN << >>
    ELSE in_data[1] \o HASH_INPUT_DELIMITER \o sha512_256_util_data(Tail(in_data))

\* sha512_256i: ptrs, the minimal big-endian bytes of each integer, b"" for 0
sha512_256i_ptrs(in_data) == [i \in 1 .. Len(in_data) |-> bb(in_data[i])]

\* the longest list of inputs hashed
MaxHashInputs == 2

\* integers handed to sha512_256i: 36 is the delimiter byte, 9252 is b"$$"
HashIntDraws == {0, 1, 36, 37, 9252}

\* byte strings handed to sha512_256
HashBytesDraws == {<< >>, <<1>>, <<36>>, <<1, 36>>, <<36, 1>>}

\* the lists of 1 .. MaxHashInputs elements of S
ListsOf(S) == UNION {[1 .. k -> S] : k \in 1 .. MaxHashInputs}

\* two callers of sha512_256i(*in_data)
lib_sha512_256i ==
    /\ lib.fn = "init"
    /\ \E a \in ListsOf(HashIntDraws), b \in ListsOf(HashIntDraws) :
          lib' = [fn |-> "sha512_256i", key |-> NoneVal, args |-> [a |-> a, b |-> b],
                  out |-> Returned([a |-> sha512_256_util_data(sha512_256i_ptrs(a)),
                                    b |-> sha512_256_util_data(sha512_256i_ptrs(b))])]
    /\ UNCHANGED <<prog_vars, zkp>>

\* two callers of sha512_256(*in_data)
lib_sha512_256 ==
    /\ lib.fn = "init"
    /\ \E a \in ListsOf(HashBytesDraws), b \in ListsOf(HashBytesDraws) :
          lib' = [fn |-> "sha512_256", key |-> NoneVal, args |-> [a |-> a, b |-> b],
                  out |-> Returned([a |-> sha512_256_util_data(a),
                                    b |-> sha512_256_util_data(b)])]
    /\ UNCHANGED <<prog_vars, zkp>>

\* C27: the hash input encoding is unambiguous: two different input lists (byte
\* strings for sha512_256, integers for sha512_256i), of the same or of different
\* length, never give the same delimiter-joined byte string fed to the hash
C27_HashInputUnambiguous ==
    lib.fn \in {"sha512_256i", "sha512_256"} /\ lib.args.a # lib.args.b
    => lib.out.val.a # lib.out.val.b

\* what holds in its place: lists of inputs none of which holds the delimiter
\* byte are told apart
C27_DelimiterFreeUnambiguous ==
    /\ lib.fn \in {"sha512_256i", "sha512_256"} /\ lib.args.a # lib.args.b
    /\ \A l \in {lib.args.a, lib.args.b} : \A i \in 1 .. Len(l) :
          LET bz == IF lib.fn = "sha512_256i" THEN bb(l[i]) ELSE l[i]
          IN  \A k \in 1 .. Len(bz) : bz[k] # HASH_INPUT_DELIMITER[1]
    => lib.out.val.a # lib.out.val.b

\* the integer lists (36) and (0, 0) are both hashed as b"$$"
C27_Collision ==
    /\ lib.fn = "sha512_256i" /\ lib.args.a = <<36>> /\ lib.args.b = <<0, 0>>
    /\ lib.out.val.a = lib.out.val.b /\ lib.out.val.a = <<36, 36>>

\* the party holds no phase handler and no stored round-1 message
HandlersCleared(pt) ==
    /\ IsNone(pt.keygen_protocol) /\ IsNone(pt.aux_protocol)
    /\ IsNone(pt.presigning_protocol) /\ IsNone(pt.p_other_msg_r1)

\* C28: when phaseN_round_out (N = 1, 2, 3) returns successfully, the party's
\* handler of that phase and its stored counterparty round-1 message are None:
\* only the output record of the phase remains
C28_RoundOutClears ==
    \A p \in Parties :
        /\ SimReturned("phase1_round_out", p)
           => /\ HandlersCleared(party[p]) /\ ~IsNone(party[p].keygen_data)
              /\ ret = Returned([X |-> party[p].keygen_data.X])
        /\ SimReturned("phase2_round_out", p)
           => /\ HandlersCleared(party[p]) /\ ~IsNone(party[p].aux_data)
              /\ ret = Returned([n |-> party[p].aux_data.paillier_pub_j.n])
        /\ SimReturned("phase3_round_out", p)
           => /\ HandlersCleared(party[p]) /\ ~IsNone(party[p].presig_data)
              /\ ret = Returned([R |-> party[p].presig_data.R])

\* the second party has finished the aux phase, which it entered with a handler
\* and a stored message
C28_Witness ==
    /\ SimReturned("phase2_round_out", 1)
    /\ IsNone(party[1].aux_protocol) /\ IsNone(party[1].p_other_msg_r1)
    /\ ~IsNone(party[1].aux_data) /\ ~IsNone(sim_local.r1[0])

\* a Paillier key pair on the primes pp and qq, as generate_key_pair builds it
KeyPairOf(pp, qq) ==
    [priv |-> PrivateKey(pp * qq, ((pp - 1) * (qq - 1)) \div Gcd(pp - 1, qq - 1),
                         (pp - 1) * (qq - 1)),
     pub  |-> PublicKey(pp * qq), p |-> pp, q |-> qq]

\* the keys a counterparty can run Aux with: the generated ones, and keys of its
\* own making whose N is 11 and 12 bits long
CounterpartyKeys == ZkpKeys \cup {KeyPairOf(43, 47), KeyPairOf(59, 67)}

\* a caller of Aux.round3(msg_j_r1, msg_j_r2) on the round-1 and round-2 messages of
\* a counterparty that ran Aux on a key of its choice; it may have changed V
lib_Aux_round3 ==
    /\ lib.fn = "init"
    /\ \E ssid \in ZkpSsids, kpj \in CounterpartyKeys, v \in 0 .. 1, acc \in BOOLEAN :
          LET ax  == Aux_init(1, ssid, KeyA, 2, 2, 1).val
              axj == Aux_init(0, ssid, kpj, 2, 2, 1).val
              r1  == [Aux_round1(axj) EXCEPT !.V = (@ + v) % HashMod]
              r2  == Aux_round2(axj)
              res == Aux_round3(ax, r1, r2, acc)
              \* the counterparty after its own round 3 on the party's messages
              peer == Aux_round3(axj, Aux_round1(ax), Aux_round2(ax), TRUE)
          IN  lib' = [fn |-> "Aux.round3", key |-> ax,
                      args |-> [msg_j_r1 |-> r1, msg_j_r2 |-> r2, acc |-> acc,
                                self |-> res.self, peer_r3 |-> peer.out],
                      out |-> res.out]
    /\ UNCHANGED <<prog_vars, zkp>>

\* C29: Aux.round3 raises VerificationError and produces no Mod or Fac proof whenever
\* the counterparty's N is shorter than the threshold (2047 bits, scaled); it
\* returns the proofs about its own N only after that check, the commitment check
\* and the check of the counterparty's Prm proof have passed
C29_AuxRound3Checks ==
    lib.fn = "Aux.round3" =>
        /\ bit_length(lib.args.msg_j_r2.n) < MinModulusBits
           => lib.out = Raised("VerificationError") /\ lib.args.self = lib.key
        /\ lib.out.err = "ok"
           => /\ DOMAIN lib.out.val = {"mod", "fac"}
              /\ bit_length(lib.args.msg_j_r2.n) >= MinModulusBits
              /\ lib.args.msg_j_r1.V =
                     Aux_commitment(lib.key.ssid, lib.args.msg_j_r1.id, lib.args.msg_j_r2.n,
                                    lib.args.msg_j_r2.s, lib.args.msg_j_r2.t,
                                    lib.args.msg_j_r2.prm, lib.args.msg_j_r2.rho)
              /\ ProofPrm_verify(lib.args.msg_j_r2.prm, lib.key.ssid, lib.args.msg_j_r2.s,
                                 lib.args.msg_j_r2.t, lib.args.msg_j_r2.n, lib.args.acc)

\* a counterparty whose N is one bit short, with a matching commitment and a Prm
\* proof that passes, is refused
C29_Witness ==
    /\ lib.fn = "Aux.round3"
    /\ bit_length(lib.args.msg_j_r2.n) = MinModulusBits - 1
    /\ lib.args.msg_j_r1.V =
           Aux_commitment(lib.key.ssid, lib.args.msg_j_r1.id, lib.args.msg_j_r2.n,
                          lib.args.msg_j_r2.s, lib.args.msg_j_r2.t,
                          lib.args.msg_j_r2.prm, lib.args.msg_j_r2.rho)
    /\ ProofPrm_verify(lib.args.msg_j_r2.prm, lib.key.ssid, lib.args.msg_j_r2.s,
                       lib.args.msg_j_r2.t, lib.args.msg_j_r2.n, lib.args.acc)
    /\ lib.out = Raised("VerificationError")

\* a counterparty whose N is long enough gets the Mod and Fac proofs
C29_WitnessProofs ==
    lib.fn = "Aux.round3" /\ lib.out.err = "ok"

\* a caller of generate_key_pair(modulus_bit_len)
lib_generate_key_pair ==
    /\ lib.fn = "init"
    /\ \E kp \in generate_key_pair(ModulusBitLen) :
          lib' = [fn |-> "generate_key_pair", key |-> NoneVal,
                  args |-> [modulus_bit_len |-> ModulusBitLen], out |-> Returned(kp)]
    /\ UNCHANGED <<prog_vars, zkp>>

\* p = 2p' + 1 with p' prime
IsSafePrime(p) == IsPrime(p) /\ p % 2 = 1 /\ IsPrime((p - 1) \div 2)

\* the least common multiple
Lcm(a, b) == (a * b) \div Gcd(a, b)

\* what generate_key_pair returns but for the safety of the primes: N = p * q with
\* p and q distinct primes of bits/2 bits, both 3 modulo 4, phi = (p - 1)(q - 1)
\* and lambda = lcm(p - 1, q - 1)
KeyPairShape(kp, bits) ==
    /\ kp.pub.n = kp.p * kp.q /\ kp.priv.n = kp.pub.n
    /\ kp.p # kp.q
    /\ IsPrime(kp.p) /\ IsPrime(kp.q)
    /\ bit_length(kp.p) = bits \div 2 /\ bit_length(kp.q) = bits \div 2
    /\ kp.p % 4 = 3 /\ kp.q % 4 = 3
    /\ kp.priv.phi_n = (kp.p - 1) * (kp.q - 1)
    /\ kp.priv.lambda_n = Lcm(kp.p - 1, kp.q - 1)

\* C30: Paillier key generation returns N = p * q where p and q are distinct safe
\* primes (p = 2p' + 1 with p' prime) of bits/2 bits each, both 3 modulo 4, with
\* phi = (p - 1)(q - 1) and lambda = lcm(p - 1, q - 1)
C30_KeyGenSafePrimes ==
    lib.fn = "generate_key_pair"
    => /\ KeyPairShape(lib.out.val, lib.args.modulus_bit_len)
       /\ IsSafePrime(lib.out.val.p) /\ IsSafePrime(lib.out.val.q)

\* what holds in its place: all of it but the safety of the primes
C30_KeyGenPrimes ==
    lib.fn = "generate_key_pair"
    => KeyPairShape(lib.out.val, lib.args.modulus_bit_len)

\* a key pair on the primes 67 = 2 * 33 + 1 and 71 = 2 * 35 + 1
C30_UnsafeKey ==
    /\ lib.fn = "generate_key_pair"
    /\ lib.out.val.p = 67 /\ lib.out.val.q = 71
    /\ ~IsSafePrime(lib.out.val.p) /\ ~IsSafePrime(lib.out.val.q)

\* the reveal msg of phase ph hashes to the commitment V the party pt has stored
RevealMatches(ph, pt, msg) ==
    IF ph = 1
    THEN pt.p_other_msg_r1.V =
             sha512_256i(<<pt.p_other_msg_r1.id, msg.rid, msg.X.x, msg.X.y, msg.A.x, msg.A.y>>)
    ELSE pt.p_other_msg_r1.V =
             Aux_commitment(pt.aux_protocol.ssid, pt.p_other_msg_r1.id, msg.n, msg.s, msg.t,
                            msg.prm, msg.rho)

\* the line read next is the command (ph, action) the server expects and routes to
\* the method of the party (a phase that is no int names no method)
ExpectedCommand(ph, action) ==
    /\ ServerStep /\ ~line'.malformed
    /\ line'.phase = JsonInt(ph) /\ line'.action = action
    /\ client.current_phase = ph /\ client.expected_action = action

\* C31: commit-then-reveal binding in Keygen and Aux: the commitment V is stored by
\* the round-2 call that releases the party's own reveal and is not replaced before
\* round 3; round 3 accepts the counterparty's reveal only if it hashes to that V,
\* and on a mismatch it raises VerificationError and emits no round-3 message
C31_CommitThenReveal ==
    [][\A ph \in {1, 2} :
        /\ ExpectedCommand(ph, "round2") /\ response'.status = "ok"
           => party'[1].p_other_msg_r1 = from_dict({"id", "V"}, line'.data).val
        /\ client.current_phase = ph /\ client.expected_action = "round3"
           => /\ ~IsNone(party[1].p_other_msg_r1)
              /\ party'[1].p_other_msg_r1 = party[1].p_other_msg_r1
        /\ ExpectedCommand(ph, "round3")
           => LET arg == from_dict(REQUEST_DTO_MAP(ph, "round3"), line'.data)
              IN  /\ response'.status = "ok"
                     => arg.err = "ok" /\ RevealMatches(ph, party[1], arg.val)
                  /\ arg.err = "ok" /\ ~RevealMatches(ph, party[1], arg.val)
                     => /\ response' = ErrorResponse("VerificationError")
                        /\ client'.expected_action = "round3"]_vars

\* a keygen reveal that does not hash to the stored commitment was refused
C31_Witness ==
    /\ ~line.malformed /\ py_eq(line.phase, 1) /\ line.action = "round3"
    /\ client.current_phase = 1 /\ client.expected_action = "round3"
    /\ from_dict({"rid", "X", "A"}, line.data).err = "ok"
    /\ ~RevealMatches(1, party[1], from_dict({"rid", "X", "A"}, line.data).val)
    /\ response = ErrorResponse("VerificationError")

\* an aux reveal that does not hash to the stored commitment was refused
C31_WitnessAux ==
    /\ ~line.malformed /\ py_eq(line.phase, 2) /\ line.action = "round3"
    /\ client.current_phase = 2 /\ client.expected_action = "round3"
    /\ from_dict({"n", "s", "t", "prm", "rho"}, line.data).err = "ok"
    /\ ~RevealMatches(2, party[1], from_dict({"n", "s", "t", "prm", "rho"}, line.data).val)
    /\ response = ErrorResponse("VerificationError")

\* a keygen reveal that hashes to the stored commitment was answered with round 3
C31_WitnessAccepted ==
    /\ ~line.malformed /\ py_eq(line.phase, 1) /\ line.action = "round3"
    /\ response.status = "ok" /\ client.expected_action = "round_out"

\* a caller of Keygen.round3(msg_j_r1, msg_j_r2) on the messages of a counterparty
\* that may have changed V or rid; key holds the Keygen object after the call
lib_Keygen_round3 ==
    /\ lib.fn = "init"
    /\ \E xj \in ScalarDraws, ridj \in RidDraws, t \in {"none", "V", "rid"} :
          LET kgi  == Keygen_init(1, 1, 0, 1)
              kgj  == Keygen_init(0, xj, ridj, 1)
              r1   == IF t = "V" THEN [Keygen_round1(kgj) EXCEPT !.V = (@ + 1) % HashMod]
                      ELSE Keygen_round1(kgj)
              r2   == IF t = "rid" THEN [Keygen_round2(kgj) EXCEPT !.rid = BitXor(@, 1)]
                      ELSE Keygen_round2(kgj)
              res  == Keygen_round3(kgi, r1, r2, 1)
              \* the counterparty after its own round 3 on the party's messages
              peer == Keygen_round3(kgj, Keygen_round1(kgi), Keygen_round2(kgi), 1)
          IN  lib' = [fn |-> "Keygen.round3", key |-> res.self,
                      args |-> [msg_j_r1 |-> r1, msg_j_r2 |-> r2,
                                peer |-> peer.self, peer_r3 |-> peer.out.val],
                      out |-> res.out]
    /\ UNCHANGED <<prog_vars, zkp>>

\* the round-3 message of the counterparty kgj with one part changed: psi; the
\* response Z of schX, or schX made with another nonce, under a psi that fits
KeygenRound3Changed(kgj, r3, t) ==
    LET schA  == ProofSch_from_bytes(r3.schA)
        schX  == ProofSch_from_bytes(r3.schX)
        schXz == [schX EXCEPT !.Z = (@ + 1) % ec_n]
        schXa == ProofSch_new_proof(kgj.srid, kgj.Xi, kgj.xi, 2)
        with(pf) == [schX |-> ProofSch_to_bytes_parts(pf), schA |-> r3.schA,
                     psi |-> sha512_256i(<<kgj.id, kgj.srid, pf.A.x, pf.Z, schA.A.x, schA.Z>>)]
    IN  CASE t = "psi" -> [r3 EXCEPT !.psi = (@ + 1) % HashMod]
          [] t = "Z" -> with(schXz)
          [] t = "A" -> with(schXa)
          [] OTHER -> r3

\* the caller goes on with Keygen.round_out(idj, msg_j_r3) after round3 returned
lib_Keygen_round_out ==
    /\ lib.fn = "Keygen.round3" /\ lib.out.err = "ok"
    /\ \E t \in {"none", "psi", "Z", "A"} :
          LET r3 == KeygenRound3Changed(lib.args.peer, lib.args.peer_r3, t)
          IN  lib' = [fn |-> "Keygen.round_out", key |-> lib.key,
                      args |-> [msg_j_r1 |-> lib.args.msg_j_r1,
                                msg_j_r2 |-> lib.args.msg_j_r2, msg_j_r3 |-> r3],
                      out |-> Keygen_round_out(lib.key, lib.args.msg_j_r1.id, r3)]
    /\ UNCHANGED <<prog_vars, zkp>>

\* a proof with a witness that does not hold
Unsound(pf) == [pf EXCEPT !.wit = FALSE]

\* the caller goes on with Aux.round_out(msg_j_r3) after round3 returned; the
\* counterparty's Mod or Fac proof may be one without a witness
lib_Aux_round_out ==
    /\ lib.fn = "Aux.round3" /\ lib.out.err = "ok" /\ lib.args.peer_r3.err = "ok"
    /\ \E t \in {"none", "mod", "fac"}, accMod \in BOOLEAN, accFac \in BOOLEAN :
          LET h  == lib.args.peer_r3.val
              r3 == CASE t = "mod" -> [h EXCEPT !.mod = Unsound(@)]
                      [] t = "fac" -> [h EXCEPT !.fac = Unsound(@)]
                      [] OTHER -> h
          IN  lib' = [fn |-> "Aux.round_out", key |-> lib.args.self,
                      args |-> [msg_j_r1 |-> lib.args.msg_j_r1,
                                msg_j_r2 |-> lib.args.msg_j_r2, acc |-> lib.args.acc,
                                msg_j_r3 |-> r3, accMod |-> accMod, accFac |-> accFac],
                      out |-> Aux_round_out(lib.args.self, r3, accMod, accFac)]
    /\ UNCHANGED <<prog_vars, zkp>>

\* every check of the keygen phase passes on the three messages of the counterparty
KeygenChecks(kg, m) ==
    LET schXj == ProofSch_from_bytes(m.msg_j_r3.schX)
        schAj == ProofSch_from_bytes(m.msg_j_r3.schA)
        srid  == Keygen_srid(kg.rid, m.msg_j_r2.rid)
    IN  /\ m.msg_j_r1.V = sha512_256i(<<m.msg_j_r1.id, m.msg_j_r2.rid, m.msg_j_r2.X.x,
                                        m.msg_j_r2.X.y, m.msg_j_r2.A.x, m.msg_j_r2.A.y>>)
        /\ m.msg_j_r3.psi = sha512_256i(<<m.msg_j_r1.id, srid, schXj.A.x, schXj.Z,
                                          schAj.A.x, schAj.Z>>)
        /\ schXj.A = m.msg_j_r2.A
        /\ ProofSch_verify(schXj, srid, m.msg_j_r2.X)
        /\ ProofSch_verify(schAj, srid, m.msg_j_r2.A)

\* the checks of Aux.round3 pass on the two messages of the counterparty
AuxRound3Checks(ax, m) ==
    /\ bit_length(m.msg_j_r2.n) >= MinModulusBits
    /\ m.msg_j_r1.V = Aux_commitment(ax.ssid, m.msg_j_r1.id, m.msg_j_r2.n, m.msg_j_r2.s,
                                     m.msg_j_r2.t, m.msg_j_r2.prm, m.msg_j_r2.rho)
    /\ ProofPrm_verify(m.msg_j_r2.prm, ax.ssid, m.msg_j_r2.s, m.msg_j_r2.t, m.msg_j_r2.n,
                       m.acc)

\* every check of the aux phase passes on the three messages of the counterparty
AuxChecks(ax, m) ==
    LET sid == BitXor(ax.ssid, BitXor(ax.rhoi, m.msg_j_r2.rho))
    IN  /\ AuxRound3Checks(ax, m)
        /\ ProofMod_verify(m.msg_j_r3.mod, sid, m.msg_j_r2.n, m.accMod)
        /\ ProofFac_verify(m.msg_j_r3.fac, sid, m.msg_j_r2.n, ax.paillier_pub_i.n,
                           ax.si, ax.ti, m.accFac)

\* the keygen and aux outputs of party id of a completed session in which party 1
\* holds KeyA and the share 1 and party 0 holds KeyB and the share 2
SessionKeygenData(id) ==
    LET xi == IF id = 1 THEN 1 ELSE 2
        xj == IF id = 1 THEN 2 ELSE 1
    IN  [ssid |-> 0, xi |-> xi, Xi |-> scalar_base_mult(xi), Xj |-> scalar_base_mult(xj),
         X |-> Keygen_public_key(scalar_base_mult(xi), scalar_base_mult(xj))]

SessionAuxData(id) ==
    LET kpi == IF id = 1 THEN KeyA ELSE KeyB
        kpj == IF id = 1 THEN KeyB ELSE KeyA
    IN  [paillier_priv_i |-> kpi.priv, paillier_pub_i |-> kpi.pub,
         si |-> RingPedersen(kpi, 2, 2).s, ti |-> RingPedersen(kpi, 2, 2).t,
         paillier_pub_j |-> kpj.pub,
         sj |-> RingPedersen(kpj, 2, 2).s, tj |-> RingPedersen(kpj, 2, 2).t]

\* Presigning(id, ec, keygen_data, aux_data) of that session with the draws k and gamma
SessionPresigning(id, k, gamma) ==
    Presigning_init(id, SessionKeygenData(id), SessionAuxData(id), k, gamma, 1, 1)

\* the scalars ec.random_scalar() can return
SessionScalars == 1 .. ec_n - 1

\* a caller of Presigning.round2(msg_j_r1) on the round-1 message of a counterparty
\* whose Enc proof may be one without a witness, or one about another ciphertext
lib_Presigning_round2 ==
    /\ lib.fn = "init"
    /\ \E k_i \in {1, 2}, k_j \in SessionScalars, gamma_j \in SessionScalars,
          t \in {"none", "proofenc", "K_ct"}, acc \in BOOLEAN :
          LET ps   == SessionPresigning(1, k_i, 1)
              psj  == SessionPresigning(0, k_j, gamma_j)
              h    == Presigning_round1(psj).val
              r1   == CASE t = "proofenc" -> [h EXCEPT !.proofenc = Unsound(@)]
                        [] t = "K_ct" -> [h EXCEPT !.K_ct = h.G_ct]
                        [] OTHER -> h
              res  == Presigning_round2(ps, r1, acc, <<1, 1, 1, 1>>)
              \* the counterparty after its own round 2 on the party's message
              peer == Presigning_round2(psj, Presigning_round1(ps).val, TRUE, <<1, 1, 1, 1>>)
          IN  lib' = [fn |-> "Presigning.round2", key |-> res.self,
                      args |-> [msg_j_r1 |-> r1, acc2 |-> acc, G_ct |-> ps.G_i_ct,
                                peer |-> peer.self, peer_out |-> peer.out],
                      out |-> res.out]
    /\ UNCHANGED <<prog_vars, zkp>>

\* the caller goes on with Presigning.round3(G_j_ct, msg_j_r2) after round2 returned
lib_Presigning_round3 ==
    /\ lib.fn = "Presigning.round2" /\ lib.out.err = "ok" /\ lib.args.peer_out.err = "ok"
    /\ \E t \in {"none", "psi_affg_gamma", "psi_affg_xi", "psi_logstar_gamma"},
          acc \in BOOLEAN \X BOOLEAN \X BOOLEAN :
          LET h    == lib.args.peer_out.val
              r2   == CASE t = "psi_affg_gamma" -> [h EXCEPT !.psi_affg_gamma = Unsound(@)]
                        [] t = "psi_affg_xi" -> [h EXCEPT !.psi_affg_xi = Unsound(@)]
                        [] t = "psi_logstar_gamma" ->
                               [h EXCEPT !.psi_logstar_gamma = Unsound(@)]
                        [] OTHER -> h
              res  == Presigning_round3(lib.key, lib.args.msg_j_r1.G_ct, r2, acc)
              peer == Presigning_round3(lib.args.peer, lib.args.G_ct, lib.out.val,
                                        <<TRUE, TRUE, TRUE>>)
          IN  lib' = [fn |-> "Presigning.round3", key |-> res.self,
                      args |-> [msg_j_r1 |-> lib.args.msg_j_r1, acc2 |-> lib.args.acc2,
                                msg_j_r2 |-> r2, acc3 |-> acc,
                                peer |-> peer.self, peer_out |-> peer.out],
                      out |-> res.out]
    /\ UNCHANGED <<prog_vars, zkp>>

\* the caller goes on with Presigning.round_out(msg_j_r3) after round3 returned
lib_Presigning_round_out ==
    /\ lib.fn = "Presigning.round3" /\ lib.out.err = "ok" /\ lib.args.peer_out.err = "ok"
    /\ \E t \in {"none", "delta", "vdelta", "psi"}, acc \in BOOLEAN :
          LET h   == lib.args.peer_out.val
              r3  == CASE t = "delta" -> [h EXCEPT !.delta = (@ + 1) % ec_n]
                       [] t = "vdelta" -> [h EXCEPT !.vdelta = point_add(@, ec_G)]
                       [] t = "psi" -> [h EXCEPT !.psi = Unsound(@)]
                       [] OTHER -> h
              res == Presigning_round_out(lib.key, r3, acc)
          IN  lib' = [fn |-> "Presigning.round_out", key |-> res.self,
                      args |-> [msg_j_r1 |-> lib.args.msg_j_r1, acc2 |-> lib.args.acc2,
                                msg_j_r2 |-> lib.args.msg_j_r2, acc3 |-> lib.args.acc3,
                                msg_j_r3 |-> r3, accOut |-> acc, changed |-> t,
                                peer |-> lib.args.peer],
                      out |-> res.out]
    /\ UNCHANGED <<prog_vars, zkp>>

\* the check of Presigning.round2 passes on the counterparty's round-1 message
PresigningRound2Checks(ps, m) ==
    ProofEnc_verify(m.msg_j_r1.proofenc, ps.ssid, ps.paillier_pub_j, ps.paillier_pub_i.n,
                    ps.si, ps.ti, m.msg_j_r1.K_ct, m.acc2)

\* the checks of Presigning.round3 pass on the counterparty's round-2 message
PresigningRound3Checks(ps, m) ==
    /\ ProofAffg_verify(m.msg_j_r2.psi_affg_gamma, ps.ssid, ps.paillier_pub_i,
                        ps.paillier_pub_j, ps.paillier_pub_i.n, ps.si, ps.ti, ps.K_i_ct,
                        m.msg_j_r2.D, m.msg_j_r2.F, m.msg_j_r2.Gamma, m.acc3[1])
    /\ ProofAffg_verify(m.msg_j_r2.psi_affg_xi, ps.ssid, ps.paillier_pub_i,
                        ps.paillier_pub_j, ps.paillier_pub_i.n, ps.si, ps.ti, ps.K_i_ct,
                        m.msg_j_r2._D, m.msg_j_r2._F, ps.Xj, m.acc3[2])
    /\ ProofLogstar_verify(m.msg_j_r2.psi_logstar_gamma, ps.ssid, ps.paillier_pub_j,
                           m.msg_j_r1.G_ct, m.msg_j_r2.Gamma, ec_G,
                           ps.paillier_pub_i.n, ps.si, ps.ti, m.acc3[3])

\* the delta check of Presigning.round_out passes: delta * G = Delta_i + Delta_j
DeltaCheck(ps, msg_j_r3) ==
    scalar_base_mult((ps.delta_i + msg_j_r3.delta) % ec_n)
        = point_add(ps.vdelta_i, msg_j_r3.vdelta)

\* the checks of Presigning.round_out pass on the counterparty's round-3 message
PresigningRoundOutChecks(ps, m) ==
    /\ ProofLogstar_verify(m.msg_j_r3.psi, ps.ssid, ps.paillier_pub_j, m.msg_j_r1.K_ct,
                           m.msg_j_r3.vdelta, point_add(ps.Gamma_i, m.msg_j_r2.Gamma),
                           ps.paillier_pub_i.n, ps.si, ps.ti, m.accOut)
    /\ DeltaCheck(ps, m.msg_j_r3)

\* C32: no output without every check: a round returns a message only if its own
\* checks passed, and KeygenOutputData, AuxOutputData and PresigOutputData are
\* returned only if every check of the phase passed on the counterparty's messages
\* (keygen: commitment, psi, schX.A = A_j, both Schnorr proofs; aux: bit length,
\* commitment, Prm, Mod, Fac; presigning: Enc, both Aff-g, both Log*, delta)
C32_NoOutputWithoutChecks ==
    lib.out.err = "ok" =>
        /\ lib.fn = "Keygen.round3" => RevealMatches(1, [p_other_msg_r1 |-> lib.args.msg_j_r1],
                                                     lib.args.msg_j_r2)
        /\ lib.fn = "Keygen.round_out" => KeygenChecks(lib.key, lib.args)
        /\ lib.fn = "Aux.round3" => AuxRound3Checks(lib.key, lib.args)
        /\ lib.fn = "Aux.round_out" => AuxChecks(lib.key, lib.args)
        /\ lib.fn = "Presigning.round2" => PresigningRound2Checks(lib.key, lib.args)
        /\ lib.fn = "Presigning.round3"
           => PresigningRound2Checks(lib.key, lib.args)
              /\ PresigningRound3Checks(lib.key, lib.args)
        /\ lib.fn = "Presigning.round_out"
           => /\ PresigningRound2Checks(lib.key, lib.args)
              /\ PresigningRound3Checks(lib.key, lib.args)
              /\ PresigningRoundOutChecks(lib.key, lib.args)

\* a keygen round-3 message whose schX is a valid proof made with another nonce
\* than the revealed A_j is refused
C32_Witness ==
    /\ lib.fn = "Keygen.round_out"
    /\ ProofSch_from_bytes(lib.args.msg_j_r3.schX).A # lib.args.msg_j_r2.A
    /\ ProofSch_verify(ProofSch_from_bytes(lib.args.msg_j_r3.schX), lib.key.srid,
                       lib.args.msg_j_r2.X)
    /\ lib.out = Raised("VerificationError")

\* the three output records are returned when every check passes
C32_WitnessKeygen == lib.fn = "Keygen.round_out" /\ lib.out.err = "ok"
C32_WitnessAux == lib.fn = "Aux.round_out" /\ lib.out.err = "ok"
C32_WitnessPresig == lib.fn = "Presigning.round_out" /\ lib.out.err = "ok"

\* an aux round-3 message with a Fac proof that has no witness is refused
C32_WitnessFac ==
    /\ lib.fn = "Aux.round_out" /\ ~lib.args.msg_j_r3.fac.wit /\ lib.args.accFac
    /\ lib.out = Raised("VerificationError")

\* a presigning round-3 message with another delta is refused
C32_WitnessDelta ==
    /\ lib.fn = "Presigning.round_out" /\ lib.args.changed = "delta" /\ lib.args.accOut
    /\ lib.out = Raised("VerificationError")

\* delta = (delta_i + delta_j) mod q of Presigning.round_out
Presigning_delta(ps, msg_j_r3) == (ps.delta_i + msg_j_r3.delta) % ec_n

\* C33: Presigning.round_out computes R only after checking delta * G = Delta_i +
\* Delta_j for delta = (delta_i + delta_j) mod q: whenever the check fails, and also
\* whenever delta is 0 mod q, the round ends in a VerificationError and returns no
\* presignature
C33_DeltaChecked ==
    lib.fn = "Presigning.round_out" =>
        /\ ~DeltaCheck(lib.key, lib.args.msg_j_r3)
           \/ Presigning_delta(lib.key, lib.args.msg_j_r3) = 0
           => lib.out = Raised("VerificationError")
        /\ lib.out.err = "ok"
           => /\ DeltaCheck(lib.key, lib.args.msg_j_r3)
              /\ Presigning_delta(lib.key, lib.args.msg_j_r3) # 0

\* what holds in its place: a failed check ends in a VerificationError, delta = 0
\* that passes the check ends in the ZeroDivisionError of gmpy2.invert, and neither
\* returns a presignature
C33_DeltaCheckedOrNoInverse ==
    lib.fn = "Presigning.round_out" =>
        /\ ~DeltaCheck(lib.key, lib.args.msg_j_r3) => lib.out = Raised("VerificationError")
        /\ Presigning_delta(lib.key, lib.args.msg_j_r3) = 0
           => lib.out.err \in {"VerificationError", "ZeroDivisionError"}
        /\ lib.out.err = "ok"
           => /\ DeltaCheck(lib.key, lib.args.msg_j_r3)
              /\ Presigning_delta(lib.key, lib.args.msg_j_r3) # 0
              /\ lib.out.val.R = Presigning_R(Presigning_delta(lib.key, lib.args.msg_j_r3),
                                              lib.key.Gamma)

\* an unchanged round-3 message with delta_i + delta_j = 0 mod q passes the check
\* and ends in ZeroDivisionError
C33_ZeroDelta ==
    /\ lib.fn = "Presigning.round_out" /\ lib.args.changed = "none" /\ lib.args.accOut
    /\ Presigning_delta(lib.key, lib.args.msg_j_r3) = 0
    /\ DeltaCheck(lib.key, lib.args.msg_j_r3)
    /\ lib.out = Raised("ZeroDivisionError")

\* C34: after an honest Presigning, with k = k_0 + k_1 and x = x_0 + x_1 taken mod q,
\* the outputs satisfy chi_0 + chi_1 = x * k (mod q), delta_0 + delta_1 =
\* k * (gamma_0 + gamma_1) (mod q), stated on the points as (delta_0 + delta_1) * G =
\* k * (Gamma_0 + Gamma_1), and R = k^-1 * G, with the MtA shares beta = q^5 - beta_neg
\* added unreduced
C34_PresigningShares ==
    SimReturned("phase3_round_out", 1) =>
        LET k     == (party[0].presig_data.k_i + party[1].presig_data.k_i) % ec_n
            x     == (party[0].keygen_data.xi + party[1].keygen_data.xi) % ec_n
            delta == (sim_local.r3[0].delta + sim_local.r3[1].delta) % ec_n
            Gamma == point_add(sim_local.r2[0].Gamma, sim_local.r2[1].Gamma)
        IN  /\ (party[0].presig_data.chi_i + party[1].presig_data.chi_i) % ec_n
                   = (x * k) % ec_n
            /\ scalar_base_mult(delta) = scalar_mult(k, Gamma)
            /\ k # 0
            /\ \A p \in Parties : party[p].presig_data.R = scalar_base_mult(invert(k, ec_n))

\* both parties completed Presigning with shares k_0 # k_1 and x_0 # x_1 and with
\* MtA shares beta above q
C34_Witness ==
    /\ SimReturned("phase3_round_out", 1)
    /\ party[0].presig_data.k_i # party[1].presig_data.k_i
    /\ party[0].keygen_data.xi # party[1].keygen_data.xi
    /\ (party[0].presig_data.k_i + party[1].presig_data.k_i) % ec_n > 1
    /\ q5 - mta_beta_neg(party[0].keygen_data.ssid) > ec_n

\* ------------------------------------------------------------------------
\* Calls on the Party API by a caller of its own, outside main.py and
\* simulate.py.  key holds the Party object after the call, args.self the
\* one before it.
\* ------------------------------------------------------------------------
\* the presignature of party 1 of a completed presigning phase with k = k_0 + k_1
SessionPresigData(k, k_i, chi_i) ==
    [R |-> scalar_base_mult(invert(k, ec_n)), k_i |-> k_i, chi_i |-> chi_i]

\* Party 1 as it is after `stage` phases of the session have completed
SessionParty(stage, presig) ==
    [Party_init(1) EXCEPT
        !.keygen_data = IF stage >= 1 THEN SessionKeygenData(1) ELSE NoneVal,
        !.aux_data    = IF stage >= 2 THEN SessionAuxData(1) ELSE NoneVal,
        !.presig_data = IF stage >= 3 THEN presig ELSE NoneVal]

\* a caller that holds a Party after 0 to 3 completed phases
lib_Party ==
    /\ lib.fn = "init"
    /\ \E stage \in 0 .. 3, k \in SessionScalars, k_i \in {1, 2}, chi_i \in {0, 3} :
          lib' = [fn |-> "Party", key |-> SessionParty(stage, SessionPresigData(k, k_i, chi_i)),
                  args |-> [stage |-> stage], out |-> Returned(NoneVal)]
    /\ UNCHANGED <<prog_vars, zkp>>

\* a caller of Party.start_phase3(), on a new Party or after a signing phase
lib_Party_start_phase3 ==
    /\ lib.fn \in {"Party", "Party.phase4_verify"}
    /\ \E k_i \in {1, 2} :
          LET res == Party_start_phase3(lib.key, k_i, 1, 1, 1)
          IN  lib' = [fn |-> "Party.start_phase3", key |-> res.self,
                      args |-> [self |-> lib.key, after |-> lib.fn,
                                verified |-> lib.fn = "Party.phase4_verify"
                                                 /\ lib.out.err = "ok"],
                      out |-> res.out]
    /\ UNCHANGED <<prog_vars, zkp>>

\* a caller of Party.start_phase4(), on a new Party, after phase4_verify, or after
\* a presigning phase that was started and not completed; args.verified tells
\* whether a phase4_verify returned before
lib_Party_start_phase4 ==
    /\ lib.fn \in {"Party", "Party.phase4_verify", "Party.start_phase3"}
    /\ LET res == Party_start_phase4(lib.key)
       IN  lib' = [fn |-> "Party.start_phase4", key |-> res.self,
                   args |-> [self |-> lib.key, after |-> lib.fn,
                             verified |-> IF lib.fn = "Party.start_phase3"
                                          THEN lib.args.verified
                                          ELSE lib.fn = "Party.phase4_verify"
                                                   /\ lib.out.err = "ok"],
                   out |-> res.out]
    /\ UNCHANGED <<prog_vars, zkp>>

\* a caller of Party.phase4_sign(message), after start_phase4 or after an earlier
\* phase4_sign whose message and share are kept in args.prev and args.prev_out
lib_Party_phase4_sign ==
    /\ \/ lib.fn = "Party.start_phase4" /\ lib.out.err = "ok"
       \/ lib.fn = "Party.phase4_sign" /\ lib.args.prev = NoneInt
    /\ \E m \in Messages :
          LET res == Party_phase4_sign(lib.key, m)
          IN  lib' = [fn |-> "Party.phase4_sign", key |-> res.self,
                      args |-> [self |-> lib.key, message |-> m,
                                prev |-> IF lib.fn = "Party.phase4_sign"
                                         THEN lib.args.message ELSE NoneInt,
                                prev_out |-> IF lib.fn = "Party.phase4_sign"
                                             THEN lib.out ELSE Returned(NoneVal)],
                      out |-> res.out]
    /\ UNCHANGED <<prog_vars, zkp>>

\* a caller of Party.phase4_verify(message, msg_j) on any share of the counterparty
lib_Party_phase4_verify ==
    /\ lib.fn = "Party.phase4_sign" /\ lib.out.err = "ok"
    /\ \E sigma \in 0 .. ec_n - 1 :
          LET res == Party_phase4_verify(lib.key, lib.args.message, [sigma |-> sigma])
          IN  lib' = [fn |-> "Party.phase4_verify", key |-> res.self,
                      args |-> [self |-> lib.key, message |-> lib.args.message,
                                sigma |-> sigma],
                      out |-> res.out]
    /\ UNCHANGED <<prog_vars, zkp>>

\* C35: at the Party API a presignature is not used twice: after Party.phase4_sign
\* returned a share for one message, a second phase4_sign on a different message,
\* with no presigning phase completed in between, returns no share under the same
\* (k_i, chi_i, R)
C35_NoPresignatureReuse ==
    lib.fn = "Party.phase4_sign" /\ lib.args.prev # NoneInt
        /\ lib.args.prev # lib.args.message /\ lib.args.prev_out.err = "ok"
    => \/ lib.out.err # "ok"
       \/ <<lib.key.signing_protocol.k_i, lib.key.signing_protocol.chi_i,
            lib.key.signing_protocol.R>>
              # <<lib.args.self.signing_protocol.k_i, lib.args.self.signing_protocol.chi_i,
                  lib.args.self.signing_protocol.R>>

\* what the code does: every phase4_sign on a started signing phase returns the share
\* k_i * h + chi_i * r of its message under the presignature the Party holds
C35_SignAlwaysReturnsShare ==
    lib.fn = "Party.phase4_sign" =>
        /\ lib.out = Returned([sigma |->
               Signing_sigma_i(lib.key.presig_data.k_i, message_digest(lib.args.message),
                               lib.key.presig_data.chi_i,
                               lib.key.presig_data.R.x % ec_n)])
        /\ lib.key.presig_data = lib.args.self.presig_data

\* two shares on messages with different digests under one presignature
C35_SecondShare ==
    /\ lib.fn = "Party.phase4_sign" /\ lib.args.prev # NoneInt
    /\ message_digest(lib.args.prev) % ec_n # message_digest(lib.args.message) % ec_n
    /\ lib.args.prev_out.err = "ok" /\ lib.out.err = "ok"
    /\ lib.out.val.sigma # lib.args.prev_out.val.sigma

\* C36: the prerequisites of a phase are tested when it starts: Party.start_phase3
\* raises RuntimeError unless keygen_data and aux_data are both set, Party.start_phase4
\* raises RuntimeError unless keygen_data and presig_data are both set, and so
\* start_phase4 fails after a phase4_verify that returned, also when a new presigning
\* phase was started and not completed
C36_PhasePrerequisites ==
    /\ lib.fn = "Party.start_phase3" =>
           /\ lib.out = Raised("RuntimeError")
                  <=> IsNone(lib.args.self.keygen_data) \/ IsNone(lib.args.self.aux_data)
           /\ lib.out.err # "ok" => lib.key = lib.args.self
    /\ lib.fn = "Party.start_phase4" =>
           /\ lib.out = Raised("RuntimeError")
                  <=> IsNone(lib.args.self.keygen_data) \/ IsNone(lib.args.self.presig_data)
           /\ lib.out.err # "ok" => lib.key = lib.args.self
           /\ lib.args.after \in {"Party.phase4_verify", "Party.start_phase3"}
                  /\ lib.args.verified
              => lib.out = Raised("RuntimeError")

\* start_phase4 raised RuntimeError after a phase4_verify that returned True
C36_Witness ==
    /\ lib.fn = "Party.start_phase4" /\ lib.args.after = "Party.phase4_verify"
    /\ lib.args.verified
    /\ lib.out = Raised("RuntimeError")

\* start_phase3 raised RuntimeError on a Party that completed Keygen and not Aux
C36_WitnessPhase3 ==
    /\ lib.fn = "Party.start_phase3" /\ ~IsNone(lib.args.self.keygen_data)
    /\ IsNone(lib.args.self.aux_data) /\ lib.out = Raised("RuntimeError")

\* start_phase4 after a new presigning phase was started and not completed
C36_WitnessRestarted ==
    /\ lib.fn = "Party.start_phase4" /\ lib.args.after = "Party.start_phase3"
    /\ lib.args.verified /\ ~IsNone(lib.key.presigning_protocol)
    /\ lib.out = Raised("RuntimeError")

\* start_phase3 went through on a Party that completed Keygen and Aux
C36_WitnessStarted ==
    /\ lib.fn = "Party.start_phase3" /\ lib.out.err = "ok"
    /\ ~IsNone(lib.key.presigning_protocol)

\* the inputs of one new_mta call besides ssid: the secret gamma_i, the plaintext k_j
\* and randomness of the ciphertext Kj, the owner of pkj, and the randomness it draws
MtaCallInputs ==
    [gamma_i : SessionScalars, k_j : {1, 2}, rho : {1, 2}, j : {"A", "B"}, sij : {1, 2}]

\* new_mta called with the inputs c under the session identifier ssid
new_mta_call(ssid, c) ==
    LET kpj == IF c.j = "A" THEN KeyA ELSE KeyB
        kpi == IF c.j = "A" THEN KeyB ELSE KeyA
    IN  new_mta(ssid, encrypt_with_randomness(kpj.pub, c.k_j, c.rho), c.gamma_i,
                scalar_base_mult(c.gamma_i), kpj.pub, kpi.pub, kpj.pub.n,
                RingPedersen(kpj, 2, 2).s, RingPedersen(kpj, 2, 2).t, c.sij, 1)

\* a caller of new_mta, twice under one ssid
lib_new_mta ==
    /\ lib.fn = "init"
    /\ \E ssid \in ZkpSsids, c1 \in MtaCallInputs, c2 \in MtaCallInputs :
          /\ c1.sij = 1 \/ c1 = c2
          /\ lib' = [fn |-> "new_mta", key |-> ssid, args |-> [c1 |-> c1, c2 |-> c2],
                     out |-> Returned(<<new_mta_call(ssid, c1), new_mta_call(ssid, c2)>>)]
    /\ UNCHANGED <<prog_vars, zkp>>

\* C37: the share beta = q^5 - beta_neg that new_mta returns is a function of ssid
\* alone: two calls under one ssid return the same beta whatever the secret input, the
\* ciphertext and the keys, and both MtA instances of a presigning round, of either
\* party, hold that beta
C37_BlindingFromSsid ==
    /\ lib.fn = "new_mta" =>
           \A i \in 1 .. 2 :
               lib.out.val[i].err = "ok" =>
                   lib.out.val[i].val.beta = q5 - rejection_sample(q5, lib.key)
    /\ lib.fn = "Presigning.round2" /\ lib.out.err = "ok" /\ lib.args.peer_out.err = "ok" =>
           \A ps \in {lib.key, lib.args.peer} :
               /\ ps.beta_ij = q5 - rejection_sample(q5, ps.ssid)
               /\ ps._beta_ij = ps.beta_ij

\* two calls that differ in the secret, the ciphertext and the keys returned one beta
C37_Witness ==
    /\ lib.fn = "new_mta"
    /\ lib.args.c1.gamma_i # lib.args.c2.gamma_i /\ lib.args.c1.k_j # lib.args.c2.k_j
    /\ lib.args.c1.j # lib.args.c2.j
    /\ lib.out.val[1].err = "ok" /\ lib.out.val[2].err = "ok"
    /\ lib.out.val[1].val.beta = lib.out.val[2].val.beta
    /\ lib.out.val[1].val.Dji # lib.out.val[2].val.Dji

\* the two MtA instances of a presigning round, on gamma_i and on x_i, hold one beta
C37_WitnessRound ==
    /\ lib.fn = "Presigning.round2" /\ lib.out.err = "ok"
    /\ lib.key.gamma_i # lib.key.xi \/ lib.args.peer.gamma_i # lib.args.peer.xi
    /\ lib.key.beta_ij = lib.key._beta_ij

\* C38: the ciphertext G_j against which the party verifies the counterparty's Log*
\* proof for Gamma_j in presigning round 3 is the G_ct of the round-1 message the
\* counterparty sent in this session: the accepted round-2 call stores that message,
\* nothing replaces it while round 3 is awaited, and round 3 accepts only a proof whose
\* statement is about the stored G_ct
C38_StoredGctVerified ==
    [][/\ ExpectedCommand(3, "round2") /\ response'.status = "ok"
          => party'[1].p_other_msg_r1 =
                 from_dict(REQUEST_DTO_MAP(3, "round2"), line'.data).val
       /\ client.current_phase = 3 /\ client.expected_action = "round3"
          => /\ ~IsNone(party[1].p_other_msg_r1)
             /\ party'[1].p_other_msg_r1 = party[1].p_other_msg_r1
       /\ ExpectedCommand(3, "round3") /\ response'.status = "ok"
          => LET arg == from_dict(REQUEST_DTO_MAP(3, "round3"), line'.data)
             IN  /\ arg.err = "ok"
                 /\ arg.val.psi_logstar_gamma.stmt[3] = party[1].p_other_msg_r1.G_ct
                 /\ arg.val.psi_logstar_gamma.stmt[4] = arg.val.Gamma]_vars

\* round 3 of a second presigning session was accepted on the G_ct of that session
C38_Witness ==
    /\ client.signing_completed
    /\ ~line.malformed /\ line.phase = JsonInt(3) /\ line.action = "round3"
    /\ response.status = "ok" /\ response.action = "round3"
    /\ party[1].p_other_msg_r1.G_ct = sim_local.r1[0].G_ct
    /\ from_dict(REQUEST_DTO_MAP(3, "round3"), line.data).val.psi_logstar_gamma.stmt[3]
           = sim_local.r1[0].G_ct

\* C39: in one session of the server Keygen and Aux each complete at most once: a
\* phase-1 or phase-2 round_out is accepted only while the party holds no output of
\* that phase, and once phase 1 has completed the share get_secret_key_xi returns,
\* the joint key X and the ssid never change, nor does the aux output once phase 2
\* has completed, whatever commands and guesses follow
C39_KeygenOnce ==
    [][/\ ~IsNone(party[1].keygen_data)
          => /\ party'[1].keygen_data = party[1].keygen_data
             /\ Party_get_secret_key_xi(party'[1]) = Party_get_secret_key_xi(party[1])
             /\ IsNone(party'[1].keygen_protocol)
             /\ client'.current_phase \in 2 .. 4
       /\ ~IsNone(party[1].aux_data)
          => /\ party'[1].aux_data = party[1].aux_data
             /\ IsNone(party'[1].aux_protocol)
             /\ client'.current_phase \in 3 .. 4
       /\ IsNone(party[1].keygen_data) => Party_get_secret_key_xi(party[1]) = NoneInt
       /\ \A ph \in 1 .. 2 :
             ServerStep /\ ~line'.malformed /\ py_eq(line'.phase, ph)
                 /\ line'.action = "round_out" /\ response'.status = "ok"
             => IF ph = 1 THEN IsNone(party[1].keygen_data) /\ ~IsNone(party'[1].keygen_data)
                ELSE IsNone(party[1].aux_data) /\ ~IsNone(party'[1].aux_data)]_vars

\* after a completed signature and a second presigning phase, a wrong guess was
\* answered and the party still holds the keygen output
C39_Witness ==
    /\ client.signing_completed /\ client.current_phase = 4
    /\ ~line.malformed /\ line.action = "guess_key"
    /\ GuessAnswered /\ ~response.result.correct
    /\ ~IsNone(party[1].keygen_data) /\ ~IsNone(party[1].presig_data)
    /\ Party_get_secret_key_xi(party[1]) = party[1].keygen_data.xi

\* a command of phase 1 was rejected after phase 1 had completed
C39_WitnessRejected ==
    /\ ~IsNone(party[1].keygen_data) /\ ~IsNone(party[1].aux_data)
    /\ ~line.malformed /\ line.phase = JsonInt(1) /\ line.action = "start_phase"
    /\ response.status = "error"

\* the functions of crypto/ called on their own: no party is running
InitLib ==
    /\ InitCommon
    /\ sim_pc = 0
    /\ running = FALSE
    /\ cli_pc = 0

NextLib ==
    \/ lib_encrypt \/ lib_homo_add \/ lib_homo_mult \/ lib_decrypt \/ lib_mta
    \/ lib_Signing_init \/ lib_Signing_sign \/ lib_Signing_verify
    \/ lib_sha512_256i \/ lib_sha512_256
    \/ lib_Aux_round3 \/ lib_generate_key_pair
    \/ lib_Keygen_round3 \/ lib_Keygen_round_out \/ lib_Aux_round_out
    \/ lib_Presigning_round2 \/ lib_Presigning_round3 \/ lib_Presigning_round_out
    \/ lib_Party \/ lib_Party_start_phase3 \/ lib_Party_start_phase4
    \/ lib_Party_phase4_sign \/ lib_Party_phase4_verify \/ lib_new_mta

SpecLib == InitLib /\ [][NextLib]_vars

====
